---- MODULE Spec2Model ----
(***************************************************************************)
(* fivenines_agent: the Agent loop (agent.py), the Synchronizer thread     *)
(* (synchronizer.py) and the SynchronizationQueue between them             *)
(* (synchronization_queue.py), with the config validator                   *)
(* (config_schema.py) projected on the keys the runtime reads.             *)
(*                                                                         *)
(* Python dicts are TLA+ records; a key is present iff it is in DOMAIN.    *)
(* Python None / True / False are the strings "None" / "True" / "False".   *)
(***************************************************************************)
EXTENDS Integers, Sequences, FiniteSets, TLC

\* ---------------------------------------------------------------- bounds
\* Stand-in for SynchronizationQueue(maxsize=100) of agent.py:132.
MaxSize == 1
\* Largest capacity and longest run of puts explored for the queue alone.
MaxCapacity == 2
MaxPuts == 4
\* Distinct payload ids used when the queue is exercised alone.
MaxId == 3
\* How far on each side of a limit the integers handed to the validator go.
Slack == 2
\* Longest password handed to the validator, in characters.
MaxPassword == 3

\* ------------------------------------------------- config_schema constants
INTERVAL_MIN == 30
INTERVAL_MAX == 3600
TIMEOUT_MIN == 1
TIMEOUT_MAX == 60
RETRY_MIN == 1
RETRY_MAX == 10
RETRY_INTERVAL_MIN == 1
RETRY_INTERVAL_MAX == 120

\* ------------------------------------------------------------ dict helpers
HasKey(d, k) == k \in DOMAIN d

Get(d, k, default) == IF k \in DOMAIN d THEN d[k] ELSE default

EmptyDict == [k \in {} |-> 0]

\* Python truthiness of the values a flag can take here.
Truthy(v) == v = "True"

\* ------------------------------------------------------------- the configs
\* Synchronizer.__init__: the built-in startup config.
DefaultConfig ==
    [enabled |-> "None",
     request_options |-> [timeout |-> 5, retry |-> 3, retry_interval |-> 5]]

\* _clamp(value, lo, hi, default) on integer input (int(value) succeeds, so
\* the default is not taken).
_clamp(value, lo, hi, default) ==
    IF value < lo THEN lo ELSE IF value > hi THEN hi ELSE value

\* _validate_request_options(opts)
_validate_request_options(opts) ==
    [timeout |-> _clamp(Get(opts, "timeout", 5), TIMEOUT_MIN, TIMEOUT_MAX, 5),
     retry |-> _clamp(Get(opts, "retry", 3), RETRY_MIN, RETRY_MAX, 3),
     retry_interval |-> _clamp(Get(opts, "retry_interval", 5),
                               RETRY_INTERVAL_MIN, RETRY_INTERVAL_MAX, 5)]

\* validate_config(raw), on the keys enabled, interval, request_options and
\* the boolean flag cpu; every other key of raw is dropped.
validate_config(raw) ==
    [enabled |-> IF Truthy(Get(raw, "enabled", "False")) THEN "True" ELSE "False",
     interval |-> _clamp(Get(raw, "interval", 60), INTERVAL_MIN, INTERVAL_MAX, 60),
     request_options |-> _validate_request_options(Get(raw, "request_options", EmptyDict)),
     cpu |-> LET val == Get(raw, "cpu", "None")
             IN  IF val = "None" THEN "None"
                 ELSE IF Truthy(val) THEN "True" ELSE "False"]

\* Config objects the backend can put in the "config" field of a /collect
\* response: a well-formed one, one without request_options and with an
\* interval below the minimum, one whose request_options lack
\* retry_interval and that carries a security_scan map, and one without
\* the enabled flag.
RawEnabled ==
    [enabled |-> "True", interval |-> 60, cpu |-> "True",
     request_options |-> [timeout |-> 5, retry |-> 2, retry_interval |-> 1]]

RawDisabled == [enabled |-> "False", interval |-> 10]

RawPartial ==
    [enabled |-> "True", interval |-> 60,
     request_options |-> [timeout |-> 5, retry |-> 1],
     security_scan |-> "dict"]

RawNoFlag == [interval |-> 60]

RawConfigs == {RawEnabled, RawDisabled, RawPartial, RawNoFlag}

\* ----------------------------------------------------------- JSON values
\* What json.loads can put in a config, tagged with its Python type.
PyNone == [type |-> "NoneType"]
PyBool(b) == [type |-> "bool", bool |-> b]
PyInt(n) == [type |-> "int", int |-> n]
PyFloat(n) == [type |-> "float", float |-> "finite", trunc |-> n]
PyInf == [type |-> "float", float |-> "inf"]
PyNaN == [type |-> "float", float |-> "nan"]
PyStr(t) == [type |-> "str", str |-> t]
PyList(l) == [type |-> "list", list |-> l]
PyDict(d) == [type |-> "dict", dict |-> d]

\* The outcome of a call: a value returned or an exception raised.
Ok(v) == [ok |-> TRUE, val |-> v]
Raised(e) == [ok |-> FALSE, exc |-> e]
NotCalled == [called |-> FALSE]

\* Python truth value: None, False, 0, 0.0, "", [] and {} are false.
PyTruthy(v) ==
    CASE v.type = "NoneType" -> FALSE
      [] v.type = "bool" -> v.bool
      [] v.type = "int" -> v.int # 0
      [] v.type = "float" -> (v.float # "finite" \/ v.trunc # 0)
      [] v.type = "str" -> v.str # ""
      [] v.type = "list" -> v.list # << >>
      [] v.type = "dict" -> DOMAIN v.dict # {}

\* The strings of the model that int() parses, with their value.
IntLiterals == [s \in {"45", "8000", "8080", "8443"} |->
                   CASE s = "45" -> 45 [] s = "8000" -> 8000
                     [] s = "8080" -> 8080 [] s = "8443" -> 8443]

\* int(value): the integer, or the exception int raises.
py_int(v) ==
    CASE v.type = "int" -> Ok(v.int)
      [] v.type = "bool" -> Ok(IF v.bool THEN 1 ELSE 0)
      [] v.type = "float" ->
            IF v.float = "finite" THEN Ok(v.trunc)
            ELSE IF v.float = "nan" THEN Raised("ValueError")
            ELSE Raised("OverflowError")
      [] v.type = "str" ->
            IF v.str \in DOMAIN IntLiterals THEN Ok(IntLiterals[v.str])
            ELSE Raised("ValueError")
      [] OTHER -> Raised("TypeError")

\* ---------------------------------------------------------------- strings
\* A string given by its pieces in order: single characters for a password,
\* delimiters and the runs of characters between them for a URL.
PyText(chars) == [type |-> "str", chars |-> chars]

\* The pieces of a string value, however it is given.
Pieces(v) == IF "chars" \in DOMAIN v THEN v.chars ELSE <<v.str>>

\* The string made of the pieces.
RECURSIVE Join(_)
Join(chars) == IF chars = << >> THEN "" ELSE Head(chars) \o Join(Tail(chars))

\* str.lower() of the pieces that have upper-case letters.
LowerCase == [t \in {"LOCALHOST", "Localhost", "HTTP", "None", "True", "False"} |->
                CASE t = "LOCALHOST" -> "localhost"
                  [] t = "Localhost" -> "localhost"
                  [] t = "HTTP" -> "http"
                  [] t = "None" -> "none"
                  [] t = "True" -> "true"
                  [] t = "False" -> "false"]

lower(t) == IF t \in DOMAIN LowerCase THEN LowerCase[t] ELSE t

\* The decimal form of the integers of the model.
IntNames == [n \in {0, 1, 127} |->
                CASE n = 0 -> "0" [] n = 1 -> "1" [] n = 127 -> "127"]

\* str(value) of a string, None, a boolean, an integer, [] and {}.
py_str(v) ==
    CASE v.type = "str" -> Join(Pieces(v))
      [] v.type = "NoneType" -> "None"
      [] v.type = "bool" -> IF v.bool THEN "True" ELSE "False"
      [] v.type = "int" -> IntNames[v.int]
      [] v.type = "list" /\ v.list = << >> -> "[]"
      [] v.type = "dict" /\ DOMAIN v.dict = {} -> "{}"

\* A mutant of _strip_crlf: only line feeds are removed.
_strip_lf(value) ==
    PyText(SelectSeq(Pieces(value), LAMBDA c : c # "\n"))

\* _strip_crlf(value): re.sub(r"[\r\n]", "", value).
_strip_crlf(value) ==
    PyText(SelectSeq(Pieces(value), LAMBDA c : c \notin {"\r", "\n"}))

\* ---------------------------------------------------- urllib.parse.urlparse
\* The index of the first piece of s from position start on that is in S, or
\* 0 (str.find).
Find(s, S, start) ==
    IF \E i \in start..Len(s) : s[i] \in S
    THEN CHOOSE i \in start..Len(s) :
            s[i] \in S /\ \A j \in start..(i - 1) : s[j] \notin S
    ELSE 0

\* The index of the last piece of s that is in S, or 0 (str.rpartition).
RFind(s, S) ==
    IF \E i \in 1..Len(s) : s[i] \in S
    THEN CHOOSE i \in 1..Len(s) :
            s[i] \in S /\ \A j \in (i + 1)..Len(s) : s[j] \notin S
    ELSE 0

\* Pieces that start with a letter and hold only letters, digits, "+", "-"
\* and ".": what urlsplit accepts before the first ":" as a scheme.
SchemeWords == {"http", "HTTP", "localhost", "LOCALHOST", "evil.com", "x"}

\* The IPv6 literals among the bracketed hosts of the model; urlsplit raises
\* ValueError for any other bracketed host.
IPv6Literals == {<<":", ":", "1">>, <<":", ":">>}

\* The url once urlsplit has taken the scheme off.
AfterScheme(url) ==
    LET After(i) == IF i > 1 /\ \A j \in 1..(i - 1) : url[j] \in SchemeWords
                    THEN SubSeq(url, i + 1, Len(url))
                    ELSE url
    IN  After(Find(url, {":"}, 1))

\* The netloc of urlsplit: what follows a leading "//" up to the first "/",
\* "?" or "#".
Netloc(url) ==
    LET UpTo(rest, delim) ==
            IF Len(rest) >= 2 /\ rest[1] = "/" /\ rest[2] = "/"
            THEN SubSeq(rest, 3, IF delim = 0 THEN Len(rest) ELSE delim - 1)
            ELSE << >>
        Of(rest) == UpTo(rest, Find(rest, {"/", "?", "#"}, 3))
    IN  Of(AfterScheme(url))

\* What lies between the first "[" of s and the first "]" after it.
Bracketed(s) ==
    LET Between(open, close) ==
            SubSeq(s, open + 1, IF close = 0 THEN Len(s) ELSE close - 1)
        From(open) == Between(open, Find(s, {"]"}, open + 1))
    IN  From(Find(s, {"["}, 1))

Has(s, c) == \E i \in 1..Len(s) : s[i] = c

\* urlparse(url).hostname: Ok of the lower-case host or of None, or the
\* ValueError of urlsplit for unbalanced brackets or a bad bracketed host.
urlparse_hostname(url) ==
    LET Hostname(hostinfo, colon) ==
            IF Has(hostinfo, "[") THEN Bracketed(hostinfo)
            ELSE SubSeq(hostinfo, 1, IF colon = 0 THEN Len(hostinfo) ELSE colon - 1)
        Checked(netloc, hostname) ==
            IF Has(netloc, "[") # Has(netloc, "]") THEN Raised("ValueError")
            ELSE IF Has(netloc, "[") /\ Bracketed(netloc) \notin IPv6Literals
                 THEN Raised("ValueError")
            ELSE IF hostname = << >> THEN Ok(PyNone)
            ELSE Ok(PyStr(Join([i \in 1..Len(hostname) |-> lower(hostname[i])])))
        OfHostinfo(netloc, hostinfo) ==
            Checked(netloc, Hostname(hostinfo, Find(hostinfo, {":"}, 1)))
        OfNetloc(netloc) ==
            OfHostinfo(netloc, SubSeq(netloc, RFind(netloc, {"@"}) + 1, Len(netloc)))
    IN  OfNetloc(Netloc(url))

LOOPBACK_HOSTS == {"localhost", "127.0.0.1", "::1"}

\* _is_loopback_url(url): urlparse raises on anything but a string, and every
\* exception means "not loopback".
_is_loopback_url(url) ==
    IF url.type # "str" THEN FALSE
    ELSE LET Loopback(hostname) ==
                 /\ hostname.ok
                 /\ hostname.val.type = "str"
                 /\ hostname.val.str \in LOOPBACK_HOSTS
         IN  Loopback(urlparse_hostname(Pieces(url)))

\* A mutant of _is_loopback_host: the case of the letters counts.
_is_loopback_host_exact(host) == py_str(host) \in LOOPBACK_HOSTS

\* _is_loopback_host(host): str(host).lower() in LOOPBACK_HOSTS.
_is_loopback_host(host) == lower(py_str(host)) \in LOOPBACK_HOSTS

\* ------------------------------------- the validator on any JSON value
\* A mutant of _clamp_value: an out-of-range number falls back to the default.
_clamp_value_or_default(value, lo, hi, default) ==
    LET n == py_int(value)
    IN  IF ~n.ok
        THEN IF n.exc \in {"TypeError", "ValueError"} THEN Ok(default) ELSE n
        ELSE IF n.val < lo \/ n.val > hi THEN Ok(default) ELSE Ok(n.val)

\* _clamp(value, lo, hi, default) with its try: int(value), the default on
\* TypeError and ValueError, any other exception of int() passed on.
_clamp_value(value, lo, hi, default) ==
    LET n == py_int(value)
    IN  IF ~n.ok
        THEN IF n.exc \in {"TypeError", "ValueError"} THEN Ok(default) ELSE n
        ELSE Ok(_clamp(n.val, lo, hi, default))

\* _validate_request_options(opts): opts.get is an AttributeError on anything
\* but a dict; the three clamps run in order and the first exception leaves.
_validate_request_options_value(opts) ==
    IF opts.type # "dict" THEN Raised("AttributeError")
    ELSE LET timeout == _clamp_value(Get(opts.dict, "timeout", PyInt(5)),
                                     TIMEOUT_MIN, TIMEOUT_MAX, 5)
             retry == _clamp_value(Get(opts.dict, "retry", PyInt(3)),
                                   RETRY_MIN, RETRY_MAX, 3)
             retry_interval == _clamp_value(Get(opts.dict, "retry_interval", PyInt(5)),
                                            RETRY_INTERVAL_MIN, RETRY_INTERVAL_MAX, 5)
         IN  IF ~timeout.ok THEN timeout
             ELSE IF ~retry.ok THEN retry
             ELSE IF ~retry_interval.ok THEN retry_interval
             ELSE Ok(PyDict([timeout |-> PyInt(timeout.val),
                             retry |-> PyInt(retry.val),
                             retry_interval |-> PyInt(retry_interval.val)]))

ALLOWED_QEMU_URIS == {"qemu:///system", "qemu:///session"}

\* hash(v) succeeds: lists and dicts are unhashable.
Hashable(v) == v.type \notin {"list", "dict"}

\* _sanitize_qemu(cfg): "uri not in ALLOWED_QEMU_URIS" hashes uri (the
\* allow-list is a set) and raises TypeError on an unhashable one.
_sanitize_qemu(cfg) ==
    LET uri == Get(cfg.dict, "uri", PyNone)
    IN  IF uri.type = "NoneType" THEN Ok(PyDict(EmptyDict))
        ELSE IF ~Hashable(uri) THEN Raised("TypeError")
        ELSE IF ~(uri.type = "str" /\ uri.str \in ALLOWED_QEMU_URIS) THEN Ok(PyNone)
        ELSE Ok(PyDict([uri |-> uri]))

\* The port of a collector entry: int(port) within 1..65535, None when the
\* collector is to be disabled (out of range, TypeError, ValueError); any
\* other exception of int() leaves the sanitizer.
sanitize_port(cfg, default) ==
    LET port == py_int(Get(cfg.dict, "port", PyInt(default)))
    IN  IF ~port.ok
        THEN IF port.exc \in {"TypeError", "ValueError"} THEN Ok(PyNone) ELSE port
        ELSE IF 1 <= port.val /\ port.val <= 65535 THEN Ok(PyInt(port.val))
        ELSE Ok(PyNone)

\* _sanitize_redis(cfg)
_sanitize_redis(cfg) ==
    LET port == sanitize_port(cfg, 6379)
        password == Get(cfg.dict, "password", PyNone)
    IN  IF ~port.ok THEN port
        ELSE IF port.val = PyNone THEN Ok(PyNone)
        ELSE IF password.type \notin {"NoneType", "str"} THEN Ok(PyNone)
        ELSE Ok(PyDict([port |-> port.val,
                        password |-> IF password.type = "str"
                                     THEN _strip_crlf(password) ELSE password]))

\* A mutant of _sanitize_nginx: the checked entry is returned whole.
_sanitize_nginx_whole(cfg) ==
    LET url == Get(cfg.dict, "status_page_url",
                   PyText(<<"http", ":", "/", "/", "127.0.0.1", ":", "8080",
                            "/", "nginx_status">>))
    IN  IF ~_is_loopback_url(url) THEN Ok(PyNone)
        ELSE Ok(PyDict([k \in DOMAIN cfg.dict \cup {"status_page_url"} |->
                            IF k = "status_page_url" THEN url ELSE cfg.dict[k]]))

\* _sanitize_nginx(cfg)
_sanitize_nginx(cfg) ==
    LET url == Get(cfg.dict, "status_page_url",
                   PyText(<<"http", ":", "/", "/", "127.0.0.1", ":", "8080",
                            "/", "nginx_status">>))
    IN  IF ~_is_loopback_url(url) THEN Ok(PyNone)
        ELSE Ok(PyDict([status_page_url |-> url]))

\* _sanitize_caddy(cfg)
_sanitize_caddy(cfg) ==
    LET url == Get(cfg.dict, "admin_api_url",
                   PyText(<<"http", ":", "/", "/", "localhost", ":", "2019">>))
    IN  IF ~_is_loopback_url(url) THEN Ok(PyNone)
        ELSE Ok(PyDict([admin_api_url |-> url]))

\* _sanitize_postgresql(cfg)
_sanitize_postgresql(cfg) ==
    LET host == Get(cfg.dict, "host", PyStr("localhost"))
        port == sanitize_port(cfg, 5432)
        user == Get(cfg.dict, "user", PyStr("postgres"))
        database == Get(cfg.dict, "database", PyStr("postgres"))
        password == Get(cfg.dict, "password", PyNone)
    IN  IF ~_is_loopback_host(host) THEN Ok(PyNone)
        ELSE IF ~port.ok THEN port
        ELSE IF port.val = PyNone THEN Ok(PyNone)
        ELSE IF user.type # "str" THEN Ok(PyNone)
        ELSE IF database.type # "str" THEN Ok(PyNone)
        ELSE IF password.type \notin {"NoneType", "str"} THEN Ok(PyNone)
        ELSE Ok(PyDict([host |-> host, port |-> port.val, user |-> user,
                        database |-> database,
                        password |-> IF password.type = "str"
                                     THEN _strip_crlf(password) ELSE password]))

\* A mutant of proxmox_verify_ssl: the value the backend sent is kept.
proxmox_verify_ssl_as_sent(cfg) == Get(cfg.dict, "verify_ssl", PyBool(TRUE))

\* The verify_ssl of a sanitized proxmox entry: True, whatever was sent.
proxmox_verify_ssl(cfg) == PyBool(TRUE)

\* _sanitize_proxmox(cfg)
_sanitize_proxmox(cfg) ==
    LET host == Get(cfg.dict, "host", PyStr("localhost"))
        port == sanitize_port(cfg, 8006)
        token_id == Get(cfg.dict, "token_id", PyNone)
        token_secret == Get(cfg.dict, "token_secret", PyNone)
    IN  IF ~_is_loopback_host(host) THEN Ok(PyNone)
        ELSE IF ~port.ok THEN port
        ELSE IF port.val = PyNone THEN Ok(PyNone)
        ELSE IF token_id.type \notin {"NoneType", "str"} THEN Ok(PyNone)
        ELSE IF token_secret.type \notin {"NoneType", "str"} THEN Ok(PyNone)
        ELSE Ok(PyDict([host |-> host, port |-> port.val, token_id |-> token_id,
                        token_secret |-> token_secret,
                        verify_ssl |-> proxmox_verify_ssl(cfg)]))

\* _sanitize_docker(cfg): socket_url is None or a string that starts with
\* "unix://".
_sanitize_docker(cfg) ==
    LET socket_url == Get(cfg.dict, "socket_url", PyNone)
    IN  IF socket_url.type = "NoneType" THEN Ok(PyDict([socket_url |-> socket_url]))
        ELSE IF socket_url.type # "str" \/ Head(Pieces(socket_url)) # "unix://"
             THEN Ok(PyNone)
        ELSE Ok(PyDict([socket_url |-> socket_url]))

\* The loop of _sanitize_ports: the valid ports in order, an entry int()
\* refuses or out of range skipped, any other exception of int() passed on.
RECURSIVE valid_ports(_)
valid_ports(monitored_ports) ==
    IF monitored_ports = << >> THEN Ok(<< >>)
    ELSE LET port == py_int(Head(monitored_ports))
             rest == valid_ports(Tail(monitored_ports))
         IN  IF ~port.ok /\ port.exc \notin {"TypeError", "ValueError"} THEN port
             ELSE IF ~rest.ok THEN rest
             ELSE IF port.ok /\ 1 <= port.val /\ port.val <= 65535
                  THEN Ok(<<PyInt(port.val)>> \o rest.val)
             ELSE rest

\* _sanitize_ports(cfg)
_sanitize_ports(cfg) ==
    LET monitored_ports == Get(cfg.dict, "monitored_ports", PyList(<< >>))
    IN  IF monitored_ports.type # "list" THEN Ok(PyNone)
        ELSE LET ports == valid_ports(monitored_ports.list)
             IN  IF ~ports.ok THEN ports
                 ELSE Ok(PyDict([monitored_ports |-> PyList(ports.val)]))

\* _sanitize_ping(cfg): the entries whose value is a non-empty string, or
\* None when cfg is no dict or no entry is left.
_sanitize_ping(cfg) ==
    IF cfg.type # "dict" THEN PyNone
    ELSE LET kept == {k \in DOMAIN cfg.dict :
                        cfg.dict[k].type = "str" /\ PyTruthy(cfg.dict[k])}
         IN  IF kept = {} THEN PyNone
             ELSE PyDict([k \in kept |-> cfg.dict[k]])

\* The keys validate_config reads as boolean feature flags, in its order.
FlagKeys == <<"cpu", "memory", "network", "partitions", "io",
              "smart_storage_health", "raid_storage_health", "processes",
              "temperatures", "fans", "fail2ban", "ipv4", "ipv6">>

\* The keys of collector_sanitizers, in its order.
SanitizedKeys == <<"redis", "nginx", "caddy", "postgresql", "proxmox",
                   "docker", "qemu", "ports">>

\* collector_sanitizers[key](cfg)
Sanitize(key, cfg) ==
    CASE key = "redis" -> _sanitize_redis(cfg)
      [] key = "nginx" -> _sanitize_nginx(cfg)
      [] key = "caddy" -> _sanitize_caddy(cfg)
      [] key = "postgresql" -> _sanitize_postgresql(cfg)
      [] key = "proxmox" -> _sanitize_proxmox(cfg)
      [] key = "docker" -> _sanitize_docker(cfg)
      [] key = "qemu" -> _sanitize_qemu(cfg)
      [] key = "ports" -> _sanitize_ports(cfg)

\* The body of the loop over collector_sanitizers for one key: a false value
\* and a true value that is no dict are kept as they are.
SanitizedEntry(d, key) ==
    LET raw_val == Get(d, key, PyNone)
    IN  IF ~PyTruthy(raw_val) THEN Ok(raw_val)
        ELSE IF raw_val.type = "dict" THEN Sanitize(key, raw_val)
        ELSE Ok(raw_val)

\* validate_config(raw): every key is computed in the order of the source and
\* the first exception leaves the call.
validate_config_value(r) ==
    IF r.type # "dict" THEN Raised("AttributeError")
    ELSE LET d == r.dict
             enabled == PyBool(PyTruthy(Get(d, "enabled", PyBool(FALSE))))
             interval == _clamp_value(Get(d, "interval", PyInt(60)),
                                      INTERVAL_MIN, INTERVAL_MAX, 60)
             opts == Get(d, "request_options", PyNone)
             request_options ==
                 _validate_request_options_value(
                     IF PyTruthy(opts) THEN opts ELSE PyDict(EmptyDict))
             flag(key) == LET val == Get(d, key, PyNone)
                          IN  IF val.type = "NoneType" THEN PyNone
                              ELSE PyBool(PyTruthy(val))
             entry == [i \in 1..Len(SanitizedKeys) |->
                          SanitizedEntry(d, SanitizedKeys[i])]
             ping == IF PyTruthy(Get(d, "ping", PyNone))
                     THEN _sanitize_ping(d.ping) ELSE PyNone
             packages == Get(d, "packages", PyNone)
             flags == {FlagKeys[i] : i \in 1..Len(FlagKeys)}
             sanitized == {SanitizedKeys[i] : i \in 1..Len(SanitizedKeys)}
             at(key) == CHOOSE i \in 1..Len(SanitizedKeys) : SanitizedKeys[i] = key
         IN  IF ~interval.ok THEN interval
             ELSE IF ~request_options.ok THEN request_options
             ELSE IF \E i \in 1..Len(entry) : ~entry[i].ok
                  THEN entry[CHOOSE i \in 1..Len(entry) :
                                ~entry[i].ok /\ \A j \in 1..(i - 1) : entry[j].ok]
             ELSE Ok(PyDict(
                 [key \in {"enabled", "interval", "request_options", "ping",
                           "packages"} \cup flags \cup sanitized |->
                     CASE key = "enabled" -> enabled
                       [] key = "interval" -> PyInt(interval.val)
                       [] key = "request_options" -> request_options.val
                       [] key = "ping" -> ping
                       [] key = "packages" -> packages
                       [] key \in flags -> flag(key)
                       [] key \in sanitized -> entry[at(key)].val]))

\* ------------------------------------------------------ transport outcomes
\* What one attempt of _post can meet (synchronizer.py:61-80).
JsonNull == [kind |-> "null"]
JsonList == [kind |-> "list"]
JsonObject(d) == [kind |-> "object", dict |-> d]

\* Parsed bodies of a 200 answer: null, a list, an object without "config",
\* an object with a config.
Bodies ==
    {JsonNull, JsonList, JsonObject(EmptyDict)}
        \cup {JsonObject([config |-> c]) : c \in RawConfigs}

\* The failures of one attempt: get_conn() is None, conn.request raises,
\* getresponse or read raises (the answer is lost or times out), a status
\* other than 200, a 200 whose body json.loads rejects.
Failures == {"no_conn", "exception", "timeout", "http_error", "bad_json"}

\* The failures that happen after conn.request has handed the payload to the
\* backend (synchronizer.py:69): the request went out and the attempt failed
\* on the answer.
FailuresAfterRequest == {"timeout", "http_error", "bad_json"}

\* ------------------------------------------------------------ queue entries
Threads == {"agent", "sync"}

Data(i) == [kind |-> "data", id |-> i]
GetConfigMsg == [kind |-> "get_config", id |-> 0]
Sentinel == [kind |-> "None", id |-> 0]

\* A mutant of PutQueue: the oldest entry goes once the size reaches maxsize.
PutQueueAtCapacity(q, m, data) ==
    IF Len(q) >= m THEN Append(Tail(q), data) ELSE Append(q, data)

\* SynchronizationQueue.put: the queue and the unfinished_tasks it leaves.
PutQueue(q, m, data) ==
    IF Len(q) > m THEN Append(Tail(q), data) ELSE Append(q, data)

PutUnfinished(q, m, u) ==
    IF Len(q) > m THEN (u - 1) + 1 ELSE u + 1

VARIABLES
    queue,            \* SynchronizationQueue.queue (the deque), oldest first
    unfinished_tasks, \* Queue.unfinished_tasks
    maxsize,          \* Queue.maxsize
    config,           \* Synchronizer.config, the live config slot
    config_lock,      \* Synchronizer.config_lock: "free" or the holder
    stop_event,       \* Synchronizer._stop_event
    exit_event,       \* agent.exit_event
    dry_run,          \* env.dry_run()
    agent_config,     \* Agent.config
    exit_code,        \* the process exit status, -1 while running
    pc,               \* each thread's position
    caller,           \* who called send_metrics in each thread
    try_count,        \* _post's try_count in each thread
    sleep_time,       \* _post's sleep_time in each thread, 0 outside the wait
    response,         \* send_metrics' local response in each thread
    get_conn_calls,   \* history: get_conn calls of the current _post
    failed,           \* history: failed attempts of the current _post
    cfg_stable,       \* history: config not replaced since _post began
    tick_used,        \* history: configs the current tick's decisions read
    tick_log,         \* history: what the current tick has done, in order
    received,         \* history: times the backend got the entry run is sending
    put_log,          \* history: every entry put, in order (queue alone)
    get_log,          \* history: every entry get returned, in order (queue alone)
    clear_mark,       \* history: Len(put_log) at the last clear (queue alone)
    raw,              \* the argument of validate_config (validator alone)
    validated,        \* what validate_config did with it (validator alone)
    api_url,          \* env.api_url(), by its pieces
    record,           \* get_conn: position in the A/AAAA loop, 0 outside it
    conn,             \* get_conn: the connection returned to _post
    conn_log,         \* history: network operations of the current attempt
    refresh_permissions_event, \* agent.refresh_permissions_event
    sighup_pending,   \* history: a SIGHUP no force_refresh has started after
    now,              \* time.time()
    _last_probe_time, \* PermissionProbe._last_probe_time
    capabilities,     \* PermissionProbe.capabilities
    capabilities_ref, \* the dict object self.capabilities names
    held,             \* the dict object a caller of force_refresh got back
    heap,             \* the contents of the dict objects
    log_buffer,       \* debug._thread_local.log_buffer of each thread
    log_lines,        \* history: the calls of log so far
    window_start,     \* history: how many calls of log preceded each thread's capture
    captured,         \* what each thread's last stop_log_capture returned
    pkg_call,         \* the arguments and environment of the last packages_sync
    pkg_sent,         \* what that call handed to send_packages_fn, in order
    pkg_log,          \* the line that call logged last
    ip_now,           \* time.time() as get_ip reads it
    _ip_v4_cache,     \* ip._ip_v4_cache
    _ip_v6_cache,     \* ip._ip_v6_cache
    ip_calls,         \* history: the calls of get_ip so far
    cm_args,          \* collect_metrics: its arguments config and telemetry
    cm_pos,           \* collect_metrics: the collector the loops are at
    cm_calls,         \* collect_metrics: the collectors called so far, in order
    cm_data,          \* collect_metrics: the keys put into data
    refreshed,        \* what the last refresh call returned
    token,            \* the TOKEN file, then Agent.token
    created           \* the objects Agent.__init__ has created

vars == <<queue, unfinished_tasks, maxsize, config, config_lock, stop_event,
          exit_event, dry_run, agent_config, exit_code, pc, caller, try_count, sleep_time,
          response, get_conn_calls, failed, cfg_stable, tick_used, tick_log,
          received, put_log, get_log, clear_mark, raw, validated, api_url,
          record, conn, conn_log, refresh_permissions_event, sighup_pending,
          now, _last_probe_time, capabilities, capabilities_ref, held, heap,
          refreshed, token, created, log_buffer, log_lines, window_start, captured,
          pkg_call, pkg_sent, pkg_log, ip_now, _ip_v4_cache, _ip_v6_cache, ip_calls,
          cm_args, cm_pos, cm_calls, cm_data>>

queue_vars == <<queue, unfinished_tasks, maxsize, put_log, get_log, clear_mark>>
post_vars == <<try_count, sleep_time, get_conn_calls, failed, cfg_stable, received>>
tick_vars == <<tick_used, tick_log>>
validator_vars == <<raw, validated>>
conn_vars == <<api_url, record, conn, conn_log>>
signal_vars == <<refresh_permissions_event, sighup_pending>>
ref_vars == <<capabilities_ref, held, heap>>
probe_vars == <<now, _last_probe_time, capabilities, ref_vars, refreshed>>
start_vars == <<token, created>>
\* What the threads' actions below leave alone: the state of get_conn, of
\* the re-probe signal, of the PermissionProbe and of start-up, each followed
\* in a specification of its own.
log_vars == <<log_buffer, log_lines, window_start, captured>>
\* The state of the functions followed one by one in specifications of their own.
pkg_vars == <<pkg_call, pkg_sent, pkg_log>>
ip_vars == <<ip_now, _ip_v4_cache, _ip_v6_cache, ip_calls>>
cm_vars == <<cm_args, cm_pos, cm_calls, cm_data>>
unit_vars == <<log_vars, pkg_vars, ip_vars, cm_vars>>
detail_vars == <<conn_vars, signal_vars, probe_vars, start_vars, unit_vars>>

\* os.environ.get('API_URL', 'api.fivenines.io') without API_URL set.
DefaultApiUrl == <<"api.fivenines.io">>

\* getattr(_thread_local, 'log_buffer', None) of a thread that has no list.
NoLogBuffer == [kind |-> "None"]

\* A list of messages.
LogBuffer(lines) == [kind |-> "list", lines |-> lines]

\* No thread has called start_log_capture, log or stop_log_capture.
LogInit ==
    /\ log_buffer = [t \in Threads |-> NoLogBuffer]
    /\ log_lines = << >>
    /\ window_start = [t \in Threads |-> 0]
    /\ captured = [t \in Threads |-> << >>]

\* packages_sync has not been called.
NoCall == [called |-> FALSE]

PackagesInit ==
    /\ pkg_call = NoCall
    /\ pkg_sent = << >>
    /\ pkg_log = "none"

\* A value of time.time() when the agent runs: seconds since 1970, far
\* beyond the 60 seconds get_ip compares with.
IpEpoch == 1000

\* ip.py as imported: _ip_v4_cache = _ip_v6_cache = {"timestamp": 0, "ip": None}
IpInit ==
    /\ ip_now = IpEpoch
    /\ _ip_v4_cache = [timestamp |-> 0, ip |-> "None"]
    /\ _ip_v6_cache = [timestamp |-> 0, ip |-> "None"]
    /\ ip_calls = << >>

\* collect_metrics has not been called.
CollectInit ==
    /\ cm_args = NoCall
    /\ cm_pos = 0
    /\ cm_calls = << >>
    /\ cm_data = {}

UnitInit == LogInit /\ PackagesInit /\ IpInit /\ CollectInit

\* How many dict objects are followed besides the first.
MaxRefs == 2

\* The names of dict objects; a caller that holds no reference has NoRef.
Refs == 0..MaxRefs
NoRef == -1

\* No connection object yet.
NoConn == [kind |-> "unset"]

\* The details at rest: the default API host and no attempt under way, no
\* SIGHUP received, the probe made at time 0 with no optional capability
\* found, the token loaded, the queue and the Synchronizer created.
DetailInit ==
    /\ api_url = DefaultApiUrl
    /\ record = 0
    /\ conn = NoConn
    /\ conn_log = << >>
    /\ refresh_permissions_event = FALSE
    /\ sighup_pending = FALSE
    /\ now = 0
    /\ _last_probe_time = 0
    /\ capabilities = {}
    /\ capabilities_ref = 0
    /\ held = NoRef
    /\ heap = [r \in Refs |-> {}]
    /\ refreshed = "none"
    /\ UnitInit
    /\ token = "loaded"
    /\ created = {"queue", "synchronizer"}

\* Agent.__init__ has run: the queue and the Synchronizer exist, the
\* Synchronizer thread is started, Agent.run is about to enter its loop.
Init ==
    /\ queue = << >>
    /\ unfinished_tasks = 0
    /\ maxsize = MaxSize
    /\ config = DefaultConfig
    /\ config_lock = "free"
    /\ stop_event = FALSE
    /\ exit_event = FALSE
    /\ dry_run \in BOOLEAN
    /\ agent_config = EmptyDict
    /\ exit_code = -1
    /\ pc = [t \in Threads |-> IF t = "agent" THEN "a_loop" ELSE "run_start"]
    /\ caller = [t \in Threads |-> "none"]
    /\ try_count = [t \in Threads |-> 0]
    /\ sleep_time = [t \in Threads |-> 0]
    /\ response = [t \in Threads |-> JsonNull]
    /\ get_conn_calls = [t \in Threads |-> 0]
    /\ failed = [t \in Threads |-> 0]
    /\ cfg_stable = [t \in Threads |-> TRUE]
    /\ tick_used = {}
    /\ tick_log = << >>
    /\ received = 0
    /\ put_log = << >>
    /\ get_log = << >>
    /\ clear_mark = 0
    /\ raw = PyNone
    /\ validated = NotCalled
    /\ DetailInit

\* ------------------------------------------------------------- exceptions
\* An exception that leaves the frames of thread t: in the Agent it is caught
\* by run's "except Exception" and the finally clause runs _cleanup; in the
\* Synchronizer nothing catches it and the thread ends.
RaisePc(t) == IF t = "agent" THEN "c_clear" ELSE "crashed"

\* Where send_metrics returns to.
AfterSendMetrics(who) ==
    CASE who = "run_init" -> "run_loop"
      [] who = "run_send" -> "task_done"
      [] who = "get_config" -> "gc_return"

InPost(t) == pc[t] \in {"post_loop", "post_attempt", "post_backoff"}

\* ------------------------------------------------------ Synchronizer._post
\* Entry of send_metrics -> _post: try_count = 0, then the retry loop.
CallSendMetrics(t, who) ==
    /\ caller' = [caller EXCEPT ![t] = who]
    /\ try_count' = [try_count EXCEPT ![t] = 0]
    /\ sleep_time' = [sleep_time EXCEPT ![t] = 0]
    /\ get_conn_calls' = [get_conn_calls EXCEPT ![t] = 0]
    /\ failed' = [failed EXCEPT ![t] = 0]
    /\ cfg_stable' = [cfg_stable EXCEPT ![t] = TRUE]
    /\ received' = IF t = "sync" THEN 0 ELSE received

\* _post's frame is gone once its caller has moved on: try_count and the
\* history of the call are dropped.
DropPostFrame(t) ==
    /\ try_count' = [try_count EXCEPT ![t] = 0]
    /\ sleep_time' = [sleep_time EXCEPT ![t] = 0]
    /\ get_conn_calls' = [get_conn_calls EXCEPT ![t] = 0]
    /\ failed' = [failed EXCEPT ![t] = 0]
    /\ cfg_stable' = [cfg_stable EXCEPT ![t] = TRUE]
    /\ received' = IF t = "sync" THEN 0 ELSE received

\* 1 when an attempt that ends with failure f ("none": a 200 answer) has
\* delivered a queue entry to the backend, else 0. Only run sends queue
\* entries; the other sends carry {"get_config": True}.
Reaches(t, f) ==
    IF t = "sync" /\ caller[t] = "run_send" /\ f \in FailuresAfterRequest \cup {"none"}
    THEN 1 ELSE 0

HasRequestOption(c, k) ==
    /\ HasKey(c, "request_options")
    /\ HasKey(c.request_options, k)

\* A mutant of ConfigOf: the whole response is adopted.
ConfigOfWholeResponse(r) == r.dict

\* response["config"] of send_metrics (synchronizer.py:98).
ConfigOf(r) == r.dict.config

\* A mutant of SleepTime: the same wait after every attempt.
SleepTimeFlat(c, n) ==
    IF HasRequestOption(c, "retry_interval") THEN c.request_options.retry_interval ELSE 0

\* sleep_time = self.config["request_options"]["retry_interval"] * try_count,
\* for the config c in the slot at that moment; without the option the
\* KeyError leaves no sleep_time.
SleepTime(c, n) ==
    IF HasRequestOption(c, "retry_interval") THEN c.request_options.retry_interval * n ELSE 0

\* A mutant of RetryLeft: one attempt too many.
RetryLeftInclusive(n, c) == n <= c.request_options.retry

\* The loop test of _post: try_count < self.config["request_options"]["retry"]
RetryLeft(n, c) == n < c.request_options.retry

\* _post has returned r to send_metrics: "if response is not None", then
\* response["config"], which raises on a list and on an object without the
\* key; with a config in hand the next step takes config_lock.
ResumePc(t, r) ==
    IF r.kind = "null" THEN AfterSendMetrics(caller[t])
    ELSE IF r.kind = "list" THEN RaisePc(t)
    ELSE IF ~HasKey(r.dict, "config") THEN RaisePc(t)
    ELSE "sm_lock"

SendMetricsResume(t, r) ==
    /\ pc' = [pc EXCEPT ![t] = ResumePc(t, r)]
    /\ response' = [response EXCEPT ![t] = IF ResumePc(t, r) = "sm_lock" THEN r ELSE JsonNull]

\* while try_count < self.config["request_options"]["retry"]
PostLoop(t) ==
    /\ pc[t] = "post_loop"
    /\ IF ~HasRequestOption(config, "retry")
       THEN /\ pc' = [pc EXCEPT ![t] = RaisePc(t)]
            /\ UNCHANGED response
       ELSE IF RetryLeft(try_count[t], config)
       THEN /\ pc' = [pc EXCEPT ![t] = "post_attempt"]
            /\ UNCHANGED response
       ELSE SendMetricsResume(t, JsonNull)
    /\ UNCHANGED <<queue_vars, config, config_lock, stop_event, exit_event, dry_run,
                   agent_config, exit_code, caller, post_vars, tick_vars, validator_vars, detail_vars>>

\* One attempt: get_conn, request, getresponse, read, json.loads. A failure
\* runs the except clause up to the wait: try_count += 1 and sleep_time from
\* self.config["request_options"]["retry_interval"].
PostAttempt(t) ==
    /\ pc[t] = "post_attempt"
    /\ get_conn_calls' = [get_conn_calls EXCEPT ![t] = @ + 1]
    /\ \/ /\ \E f \in Failures : received' = received + Reaches(t, f)
          /\ try_count' = [try_count EXCEPT ![t] = @ + 1]
          /\ sleep_time' = [sleep_time EXCEPT ![t] = SleepTime(config, try_count'[t])]
          /\ failed' = [failed EXCEPT ![t] = @ + 1]
          /\ pc' = [pc EXCEPT ![t] = IF HasRequestOption(config, "retry_interval")
                                       THEN "post_backoff" ELSE RaisePc(t)]
          /\ UNCHANGED response
       \/ /\ HasRequestOption(config, "timeout")
          /\ \E b \in Bodies : SendMetricsResume(t, b)
          /\ received' = received + Reaches(t, "none")
          /\ UNCHANGED <<try_count, sleep_time, failed>>
    /\ UNCHANGED <<queue_vars, config, config_lock, stop_event, exit_event, dry_run,
                   agent_config, exit_code, caller, cfg_stable, tick_vars, validator_vars, detail_vars>>

\* A mutant of PostBackoff: the wait's result is ignored.
PostBackoffNoBreak(t) ==
    /\ pc[t] = "post_backoff"
    /\ pc' = [pc EXCEPT ![t] = "post_loop"]
    /\ sleep_time' = [sleep_time EXCEPT ![t] = 0]
    /\ UNCHANGED <<queue_vars, config, config_lock, stop_event, exit_event, dry_run,
                   agent_config, exit_code, caller, try_count, get_conn_calls, failed,
                   cfg_stable, received, tick_vars, validator_vars, detail_vars, response>>

\* if self._stop_event.wait(timeout=sleep_time): break
\* The wait returns True as soon as the event is set and False once the
\* timeout has run out with the event unset.
PostBackoff(t) ==
    /\ pc[t] = "post_backoff"
    /\ IF stop_event
       THEN SendMetricsResume(t, JsonNull)
       ELSE /\ pc' = [pc EXCEPT ![t] = "post_loop"]
            /\ UNCHANGED response
    /\ sleep_time' = [sleep_time EXCEPT ![t] = 0]
    /\ UNCHANGED <<queue_vars, config, config_lock, stop_event, exit_event, dry_run,
                   agent_config, exit_code, caller, try_count, get_conn_calls, failed,
                   cfg_stable, received, tick_vars, validator_vars, detail_vars>>

\* ------------------------------------------------ Synchronizer.send_metrics
\* with self.config_lock:
SendMetricsLock(t) ==
    /\ pc[t] = "sm_lock"
    /\ config_lock = "free"
    /\ config_lock' = t
    /\ pc' = [pc EXCEPT ![t] = "sm_set"]
    /\ UNCHANGED <<queue_vars, config, stop_event, exit_event, dry_run, agent_config,
                   exit_code, caller, post_vars, tick_vars, validator_vars, detail_vars, response>>

\* self.config = config, and the lock is released.
SendMetricsSet(t) ==
    /\ pc[t] = "sm_set"
    /\ config' = ConfigOf(response[t])
    /\ config_lock' = "free"
    /\ response' = [response EXCEPT ![t] = JsonNull]
    /\ cfg_stable' = [u \in Threads |->
                        IF InPost(u) /\ config' # config THEN FALSE ELSE cfg_stable[u]]
    /\ pc' = [pc EXCEPT ![t] = AfterSendMetrics(caller[t])]
    /\ UNCHANGED <<queue_vars, stop_event, exit_event, dry_run, agent_config,
                   exit_code, caller, try_count, sleep_time, get_conn_calls, failed, received,
                   tick_vars, validator_vars, detail_vars>>

\* --------------------------------------------------------- Synchronizer.run
\* A mutant of RunStart: run enters its loop without the first request.
RunStartNoRequest ==
    /\ pc["sync"] = "run_start"
    /\ pc' = [pc EXCEPT !["sync"] = "run_loop"]
    /\ UNCHANGED <<queue_vars, config, config_lock, stop_event, exit_event, dry_run,
                   agent_config, exit_code, caller, post_vars, tick_vars, validator_vars, detail_vars, response>>

\* self.send_metrics({"get_config": True})
RunStart ==
    /\ pc["sync"] = "run_start"
    /\ CallSendMetrics("sync", "run_init")
    /\ pc' = [pc EXCEPT !["sync"] = "post_loop"]
    /\ UNCHANGED <<queue_vars, config, config_lock, stop_event, exit_event, dry_run,
                   agent_config, exit_code, tick_vars, validator_vars, detail_vars, response>>

\* while not self._stop_event.is_set():
RunLoop ==
    /\ pc["sync"] = "run_loop"
    /\ pc' = [pc EXCEPT !["sync"] = IF stop_event THEN "stopped" ELSE "run_get"]
    /\ DropPostFrame("sync")
    /\ UNCHANGED <<queue_vars, config, config_lock, stop_event, exit_event, dry_run,
                   agent_config, exit_code, caller, tick_vars, validator_vars, detail_vars, response>>

\* A mutant of RunGet: after a None the thread dequeues again at once.
RunGetAgainAfterNone ==
    /\ pc["sync"] = "run_get"
    /\ Len(queue) > 0
    /\ queue' = Tail(queue)
    /\ IF Head(queue) = Sentinel
       THEN /\ pc' = [pc EXCEPT !["sync"] = "run_get"]
            /\ UNCHANGED <<caller, post_vars>>
       ELSE /\ CallSendMetrics("sync", "run_send")
            /\ pc' = [pc EXCEPT !["sync"] = "post_loop"]
    /\ UNCHANGED <<unfinished_tasks, maxsize, put_log, get_log, clear_mark, config,
                   config_lock, stop_event, exit_event, dry_run, agent_config,
                   exit_code, tick_vars, validator_vars, detail_vars, response>>

\* data = self.queue.get(), blocking while the queue is empty; a None goes
\* back to the loop test, anything else is sent.
RunGet ==
    /\ pc["sync"] = "run_get"
    /\ Len(queue) > 0
    /\ queue' = Tail(queue)
    /\ IF Head(queue) = Sentinel
       THEN /\ pc' = [pc EXCEPT !["sync"] = "run_loop"]
            /\ UNCHANGED <<caller, post_vars>>
       ELSE /\ CallSendMetrics("sync", "run_send")
            /\ pc' = [pc EXCEPT !["sync"] = "post_loop"]
    /\ UNCHANGED <<unfinished_tasks, maxsize, put_log, get_log, clear_mark, config,
                   config_lock, stop_event, exit_event, dry_run, agent_config,
                   exit_code, tick_vars, validator_vars, detail_vars, response>>

\* self.queue.task_done(): ValueError when unfinished_tasks is already 0.
TaskDone ==
    /\ pc["sync"] = "task_done"
    /\ IF unfinished_tasks - 1 < 0
       THEN /\ pc' = [pc EXCEPT !["sync"] = RaisePc("sync")]
            /\ UNCHANGED unfinished_tasks
       ELSE /\ pc' = [pc EXCEPT !["sync"] = "run_loop"]
            /\ unfinished_tasks' = unfinished_tasks - 1
    /\ DropPostFrame("sync")
    /\ UNCHANGED <<queue, maxsize, put_log, get_log, clear_mark, config, config_lock,
                   stop_event, exit_event, dry_run, agent_config, exit_code, caller,
                   tick_vars, validator_vars, detail_vars, response>>

\* ------------------------------------------------------------------ Agent
\* A mutant of DecisionConfig: the interval is read from the live slot.
DecisionConfigLive(own, decision) ==
    IF decision = "interval" THEN config ELSE own

\* The config a decision of the tick reads: Agent.config, the reference
\* taken by "self.config = self.synchronizer.get_config()" (agent.py:182),
\* for the enabled check (183), the collectors (198-250) and the interval
\* (274).

DecisionConfig(own, decision) == own

\* A mutant of IsEnabled: anything but False counts as enabled.
IsEnabledUnlessFalse(c) == Get(c, "enabled", "False") # "False"

\* not (not self.config.get("enabled", False)), agent.py:183
IsEnabled(c) == Truthy(Get(c, "enabled", "False"))

\* The config keys whose collectors the model follows (agent.py:201-205).
CollectorKeys == {"cpu"}

\* if self.config.get(key): the collectors the tick calls.
EnabledCollectors(c) == {k \in CollectorKeys : HasKey(c, k) /\ Truthy(c[k])}

AgentPut(data) ==
    /\ queue' = PutQueue(queue, maxsize, data)
    /\ unfinished_tasks' = PutUnfinished(queue, maxsize, unfinished_tasks)
    /\ UNCHANGED <<maxsize, put_log, get_log, clear_mark>>

\* A termination signal: _on_exit_signal sets exit_event.
Signal ==
    /\ exit_code = -1
    /\ ~exit_event
    /\ exit_event' = TRUE
    /\ UNCHANGED <<queue_vars, config, config_lock, stop_event, dry_run, agent_config,
                   exit_code, pc, caller, post_vars, tick_vars, validator_vars, detail_vars, response>>

\* while not exit_event.is_set(): ... finally: self._cleanup()
AgentLoop ==
    /\ pc["agent"] = "a_loop"
    /\ pc' = [pc EXCEPT !["agent"] = IF exit_event THEN "c_clear" ELSE "gc_check"]
    /\ tick_used' = {}
    /\ tick_log' = << >>
    /\ UNCHANGED <<queue_vars, config, config_lock, stop_event, exit_event, dry_run,
                   agent_config, exit_code, caller, post_vars, response, validator_vars, detail_vars>>

\* get_config: if self.config["enabled"] == None, read without the lock.
GetConfigCheck ==
    /\ pc["agent"] = "gc_check"
    /\ IF ~HasKey(config, "enabled")
       THEN /\ pc' = [pc EXCEPT !["agent"] = RaisePc("agent")]
            /\ UNCHANGED <<caller, post_vars>>
       ELSE IF config.enabled = "None"
       THEN /\ CallSendMetrics("agent", "get_config")
            /\ pc' = [pc EXCEPT !["agent"] = "post_loop"]
       ELSE /\ pc' = [pc EXCEPT !["agent"] = "gc_lock"]
            /\ UNCHANGED <<caller, post_vars>>
    /\ UNCHANGED <<queue_vars, config, config_lock, stop_event, exit_event, dry_run,
                   agent_config, exit_code, tick_vars, validator_vars, detail_vars, response>>

\* else: with self.config_lock:
GetConfigLock ==
    /\ pc["agent"] = "gc_lock"
    /\ config_lock = "free"
    /\ config_lock' = "agent"
    /\ pc' = [pc EXCEPT !["agent"] = "gc_return_locked"]
    /\ UNCHANGED <<queue_vars, config, stop_event, exit_event, dry_run, agent_config,
                   exit_code, caller, post_vars, tick_vars, validator_vars, detail_vars, response>>

\* "return self.config" of either branch, the assignment to Agent.config and
\* "if not self.config.get('enabled', False)".
GetConfigReturn ==
    /\ pc["agent"] \in {"gc_return", "gc_return_locked"}
    /\ agent_config' = config
    /\ config_lock' = IF pc["agent"] = "gc_return_locked" THEN "free" ELSE config_lock
    /\ LET seen == DecisionConfig(config, "enabled")
       IN  /\ tick_used' = tick_used \cup {seen}
           /\ pc' = [pc EXCEPT !["agent"] =
                        IF IsEnabled(seen) THEN "a_collect" ELSE "a_refresh"]
    /\ DropPostFrame("agent")
    /\ UNCHANGED <<queue_vars, config, stop_event, exit_event, dry_run, exit_code,
                   caller, response, tick_log, validator_vars, detail_vars>>

\* self.queue.put({"get_config": True})
AgentRefresh ==
    /\ pc["agent"] = "a_refresh"
    /\ AgentPut(GetConfigMsg)
    /\ tick_log' = Append(tick_log, "put_get_config")
    /\ pc' = [pc EXCEPT !["agent"] = "a_idle"]
    /\ UNCHANGED <<config, config_lock, stop_event, exit_event, dry_run, agent_config,
                   exit_code, caller, post_vars, tick_used, response, validator_vars, detail_vars>>

\* exit_event.wait(25); continue
AgentIdle ==
    /\ pc["agent"] = "a_idle"
    /\ pc' = [pc EXCEPT !["agent"] = "a_loop"]
    /\ UNCHANGED <<queue_vars, config, config_lock, stop_event, exit_event, dry_run,
                   agent_config, exit_code, caller, post_vars, tick_vars, validator_vars, detail_vars, response>>

\* The collectors, called one after the other with nothing around the calls
\* (agent.py:193-250): one that raises leaves the tick for run's "except
\* Exception". Then _maybe_run_security_scan: with a security_scan map,
\* packages found and no dry run it calls synchronizer.send_security_scan,
\* which Synchronizer does not define (AttributeError). Then the dry-run
\* test: exit_event.set().
AgentCollect ==
    /\ pc["agent"] = "a_collect"
    /\ LET seen == DecisionConfig(agent_config, "collect")
       IN  /\ tick_used' = tick_used \cup {seen}
           /\ \E raising \in SUBSET EnabledCollectors(seen), packages_found \in BOOLEAN :
                 IF raising # {}
                 THEN /\ pc' = [pc EXCEPT !["agent"] = RaisePc("agent")]
                      /\ tick_log' = tick_log \o <<"collect", "raise">>
                      /\ UNCHANGED exit_event
                 ELSE IF HasKey(seen, "security_scan") /\ packages_found /\ ~dry_run
                 THEN /\ pc' = [pc EXCEPT !["agent"] = RaisePc("agent")]
                      /\ tick_log' = Append(tick_log, "collect")
                      /\ UNCHANGED exit_event
                 ELSE IF dry_run
                 THEN /\ pc' = [pc EXCEPT !["agent"] = "a_loop"]
                      /\ tick_log' = Append(tick_log, "collect")
                      /\ exit_event' = TRUE
                 ELSE /\ pc' = [pc EXCEPT !["agent"] = "a_put"]
                      /\ tick_log' = Append(tick_log, "collect")
                      /\ UNCHANGED exit_event
    /\ UNCHANGED <<queue_vars, config, config_lock, stop_event, dry_run, agent_config,
                   exit_code, caller, post_vars, response, validator_vars, detail_vars>>

\* self.queue.put(data), then _wait_interval up to its wait.
AgentEnqueue ==
    /\ pc["agent"] = "a_put"
    /\ AgentPut(Data(0))
    /\ tick_used' = tick_used \cup {DecisionConfig(agent_config, "interval")}
    /\ tick_log' = Append(tick_log, "put_data")
    /\ pc' = [pc EXCEPT !["agent"] = "a_sleep"]
    /\ UNCHANGED <<config, config_lock, stop_event, exit_event, dry_run, agent_config,
                   exit_code, caller, post_vars, response, validator_vars, detail_vars>>

\* exit_event.wait(sleep_time)
AgentSleep ==
    /\ pc["agent"] = "a_sleep"
    /\ pc' = [pc EXCEPT !["agent"] = "a_loop"]
    /\ UNCHANGED <<queue_vars, config, config_lock, stop_event, exit_event, dry_run,
                   agent_config, exit_code, caller, post_vars, tick_vars, validator_vars, detail_vars, response>>

\* ---------------------------------------------------------- Agent._cleanup
\* self.queue.clear()
CleanupClear ==
    /\ pc["agent"] = "c_clear"
    /\ queue' = << >>
    /\ unfinished_tasks' = 0
    /\ pc' = [pc EXCEPT !["agent"] = "c_stop"]
    /\ DropPostFrame("agent")
    /\ tick_log' = << >>
    /\ UNCHANGED <<maxsize, put_log, get_log, clear_mark, config, config_lock, stop_event,
                   exit_event, dry_run, agent_config, exit_code, caller, tick_used,
                   response, validator_vars, detail_vars>>

\* A mutant of CleanupStop: the stop signal is not set.
CleanupStopForgotten ==
    /\ pc["agent"] = "c_stop"
    /\ pc' = [pc EXCEPT !["agent"] = "c_put"]
    /\ UNCHANGED <<queue_vars, config, config_lock, stop_event, exit_event, dry_run,
                   agent_config, exit_code, caller, post_vars, tick_vars, validator_vars, detail_vars, response>>

\* self.synchronizer.stop()
CleanupStop ==
    /\ pc["agent"] = "c_stop"
    /\ stop_event' = TRUE
    /\ pc' = [pc EXCEPT !["agent"] = "c_put"]
    /\ UNCHANGED <<queue_vars, config, config_lock, exit_event, dry_run, agent_config,
                   exit_code, caller, post_vars, tick_vars, validator_vars, detail_vars, response>>

\* self.queue.put(None)
CleanupPut ==
    /\ pc["agent"] = "c_put"
    /\ AgentPut(Sentinel)
    /\ pc' = [pc EXCEPT !["agent"] = "c_join"]
    /\ UNCHANGED <<config, config_lock, stop_event, exit_event, dry_run, agent_config,
                   exit_code, caller, post_vars, tick_vars, validator_vars, detail_vars, response>>

\* self.synchronizer.join(); sys.exit(0)
CleanupJoin ==
    /\ pc["agent"] = "c_join"
    /\ pc["sync"] \in {"stopped", "crashed"}
    /\ pc' = [pc EXCEPT !["agent"] = "exited"]
    /\ exit_code' = 0
    /\ UNCHANGED <<queue_vars, config, config_lock, stop_event, exit_event, dry_run,
                   agent_config, caller, post_vars, tick_vars, validator_vars, detail_vars, response>>

\* ------------------------------------------------------------ the program
AgentNext ==
    \/ AgentLoop
    \/ GetConfigCheck
    \/ GetConfigLock
    \/ GetConfigReturn
    \/ AgentRefresh
    \/ AgentIdle
    \/ AgentCollect
    \/ AgentEnqueue
    \/ AgentSleep
    \/ CleanupClear
    \/ CleanupStop
    \/ CleanupPut
    \/ CleanupJoin
    \/ PostLoop("agent")
    \/ PostAttempt("agent")
    \/ PostBackoff("agent")
    \/ SendMetricsLock("agent")
    \/ SendMetricsSet("agent")

SyncNext ==
    \/ RunStart
    \/ RunLoop
    \/ RunGet
    \/ TaskDone
    \/ PostLoop("sync")
    \/ PostAttempt("sync")
    \/ PostBackoff("sync")
    \/ SendMetricsLock("sync")
    \/ SendMetricsSet("sync")

Next == Signal \/ AgentNext \/ SyncNext

Spec == Init /\ [][Next]_vars

\* The scheduler runs every runnable thread, every timed wait runs out and
\* every single network operation returns.
LiveSpec == Spec /\ WF_vars(AgentNext) /\ WF_vars(SyncNext)

\* ------------------------------------------------- the queue on its own
\* A SynchronizationQueue of any capacity up to MaxCapacity, fed by put only.
InitPut ==
    /\ queue = << >>
    /\ unfinished_tasks = 0
    /\ maxsize \in 1..MaxCapacity
    /\ config = DefaultConfig
    /\ config_lock = "free"
    /\ stop_event = FALSE
    /\ exit_event = FALSE
    /\ dry_run = FALSE
    /\ agent_config = EmptyDict
    /\ exit_code = -1
    /\ pc = [t \in Threads |-> "queue_only"]
    /\ caller = [t \in Threads |-> "none"]
    /\ try_count = [t \in Threads |-> 0]
    /\ sleep_time = [t \in Threads |-> 0]
    /\ response = [t \in Threads |-> JsonNull]
    /\ get_conn_calls = [t \in Threads |-> 0]
    /\ failed = [t \in Threads |-> 0]
    /\ cfg_stable = [t \in Threads |-> TRUE]
    /\ tick_used = {}
    /\ tick_log = << >>
    /\ received = 0
    /\ put_log = << >>
    /\ get_log = << >>
    /\ clear_mark = 0
    /\ raw = PyNone
    /\ validated = NotCalled
    /\ DetailInit

\* A mutant of Put: the producer waits for space, as Queue.put does.
PutBlocking ==
    /\ Len(put_log) < MaxPuts
    /\ Len(queue) < maxsize
    /\ \E i \in 1..MaxId :
          /\ queue' = PutQueue(queue, maxsize, Data(i))
          /\ put_log' = Append(put_log, Data(i))
    /\ unfinished_tasks' = PutUnfinished(queue, maxsize, unfinished_tasks)
    /\ UNCHANGED <<maxsize, get_log, clear_mark, config, config_lock, stop_event,
                   exit_event, dry_run, agent_config, exit_code, pc, caller, post_vars,
                   tick_vars, validator_vars, detail_vars, response>>

\* put(data)
Put ==
    /\ Len(put_log) < MaxPuts
    /\ \E i \in 1..MaxId :
          /\ queue' = PutQueue(queue, maxsize, Data(i))
          /\ put_log' = Append(put_log, Data(i))
    /\ unfinished_tasks' = PutUnfinished(queue, maxsize, unfinished_tasks)
    /\ UNCHANGED <<maxsize, get_log, clear_mark, config, config_lock, stop_event,
                   exit_event, dry_run, agent_config, exit_code, pc, caller, post_vars,
                   tick_vars, validator_vars, detail_vars, response>>

SpecPut == InitPut /\ [][Put]_vars

\* get(): the inherited Queue.get, which blocks while the queue is empty and
\* then removes and returns the oldest entry.
QueueGet ==
    /\ Len(queue) > 0
    /\ get_log' = Append(get_log, Head(queue))
    /\ queue' = Tail(queue)
    /\ UNCHANGED <<unfinished_tasks, maxsize, put_log, clear_mark, config, config_lock,
                   stop_event, exit_event, dry_run, agent_config, exit_code, pc, caller,
                   post_vars, tick_vars, validator_vars, detail_vars, response>>

\* A mutant of QueueClear: only the in-flight accounting is reset.
QueueClearCounterOnly ==
    /\ unfinished_tasks' = 0
    /\ clear_mark' = Len(put_log)
    /\ UNCHANGED <<queue, maxsize, put_log, get_log, config, config_lock, stop_event,
                   exit_event, dry_run, agent_config, exit_code, pc, caller, post_vars,
                   tick_vars, validator_vars, detail_vars, response>>

\* clear(): under the mutex, the deque is emptied and unfinished_tasks reset.
QueueClear ==
    /\ queue' = << >>
    /\ unfinished_tasks' = 0
    /\ clear_mark' = Len(put_log)
    /\ UNCHANGED <<maxsize, put_log, get_log, config, config_lock, stop_event,
                   exit_event, dry_run, agent_config, exit_code, pc, caller, post_vars,
                   tick_vars, validator_vars, detail_vars, response>>

\* A SynchronizationQueue of any capacity up to MaxCapacity under put, get and
\* clear in any order.
SpecQueue == InitPut /\ [][Put \/ QueueGet \/ QueueClear]_vars

\* ---------------------------------------------- validate_config on its own
\* A key the config does not have.
Missing == [type |-> "missing"]

\* The dict with the keys of f that are not Missing.
DictOf(f) == PyDict([k \in {j \in DOMAIN f : f[j] # Missing} |-> f[k]])

\* Values int() refuses with TypeError or ValueError.
NonNumbers == {PyNone, PyStr("bad"), PyStr(""), PyList(<< >>),
               PyDict(EmptyDict), PyNaN}

\* Values int() accepts or fails on otherwise.
OtherNumbers == {PyBool(TRUE), PyBool(FALSE), PyStr("45"), PyFloat(45), PyInf}

\* Integers within Slack of either limit, zero and the default.
NearLimits(lo, hi, default) ==
    ((lo - Slack)..(lo + Slack)) \cup ((hi - Slack)..(hi + Slack)) \cup {0, default}

FieldValues(lo, hi, default) ==
    {PyInt(n) : n \in NearLimits(lo, hi, default)}
        \cup NonNumbers \cup OtherNumbers \cup {Missing}

\* One value below, on and above the limits, one non-number and no key.
CoreValues(lo, hi) == {PyInt(lo - 1), PyInt(lo), PyInt(hi + 1), PyStr("bad"), Missing}

\* A raw config with the four numeric fields.
RawOf(interval, timeout, retry, retry_interval) ==
    DictOf([interval |-> interval,
            request_options |-> DictOf([timeout |-> timeout, retry |-> retry,
                                        retry_interval |-> retry_interval])])

\* Raw configs that vary the numeric fields: each alone over FieldValues,
\* and all four together over CoreValues.
NumericRaws ==
    {RawOf(v, Missing, PyInt(3), Missing) :
        v \in FieldValues(INTERVAL_MIN, INTERVAL_MAX, 60)}
    \cup {RawOf(Missing, v, Missing, PyInt(5)) :
        v \in FieldValues(TIMEOUT_MIN, TIMEOUT_MAX, 5)}
    \cup {RawOf(PyInt(60), Missing, v, Missing) :
        v \in FieldValues(RETRY_MIN, RETRY_MAX, 3)}
    \cup {RawOf(Missing, PyInt(5), Missing, v) :
        v \in FieldValues(RETRY_INTERVAL_MIN, RETRY_INTERVAL_MAX, 5)}
    \cup {RawOf(a, b, c, d) :
        a \in CoreValues(INTERVAL_MIN, INTERVAL_MAX),
        b \in CoreValues(TIMEOUT_MIN, TIMEOUT_MAX),
        c \in CoreValues(RETRY_MIN, RETRY_MAX),
        d \in CoreValues(RETRY_INTERVAL_MIN, RETRY_INTERVAL_MAX)}

\* Raw configs that vary the shape of request_options and of qemu.
ShapeRaws ==
    {DictOf([enabled |-> e, request_options |-> o, qemu |-> q]) :
        e \in {PyBool(TRUE), PyNone, Missing},
        o \in {Missing, PyNone, PyDict(EmptyDict), PyList(<< >>),
               PyList(<<PyInt(1)>>), PyStr("x"), PyInt(5), PyBool(FALSE)},
        q \in {Missing, PyNone, PyBool(TRUE), PyDict(EmptyDict),
               PyDict([uri |-> PyNone]),
               PyDict([uri |-> PyStr("qemu:///system")]),
               PyDict([uri |-> PyStr("qemu+ssh://host/system")]),
               PyDict([uri |-> PyInt(1)]),
               PyDict([uri |-> PyList(<<PyStr("qemu:///system")>>)])}}

\* Host names a URL or a host field can carry.
HostNames == {"localhost", "LOCALHOST", "127.0.0.1", "::1", "127.0.0.2",
              "169.254.169.254", "evil.com"}

\* The parts of a URL <scheme>://<user>@<host>:<port>/<path>; "" is a part
\* left out.
UrlShapes == [scheme : {"http", "HTTP", ""}, user : {"", "localhost"},
              host : HostNames, port : {"", "8080"},
              path : {"", "x", "@localhost"}]

\* The pieces of the URL with the parts u; an IPv6 host goes in brackets.
UrlOf(u) ==
    (IF u.scheme = "" THEN << >> ELSE <<u.scheme, ":">>)
    \o <<"/", "/">>
    \o (IF u.user = "" THEN << >> ELSE <<u.user, "@">>)
    \o (IF u.host = "::1" THEN <<"[", ":", ":", "1", "]">> ELSE <<u.host>>)
    \o (IF u.port = "" THEN << >> ELSE <<":", u.port>>)
    \o (CASE u.path = "" -> << >>
           [] u.path = "x" -> <<"/", "x">>
           [] u.path = "@localhost" -> <<"/", "@", "localhost">>)

\* Strings that are no URL with a host: no "//", an IPv6 host without its
\* brackets, a name in brackets, an open bracket, the empty string.
NotUrls == {<<"localhost">>, <<"localhost", ":", "8080">>,
            <<"127.0.0.1", ":", "8080", "/", "x">>,
            <<"http", ":", "localhost">>,
            <<"http", ":", "/", "/", ":", ":", "1", "/">>,
            <<"http", ":", "/", "/", "[", "localhost", "]">>,
            <<"http", ":", "/", "/", "[", ":", ":", "1">>,
            <<"http", ":", "/", "/">>, << >>}

\* Values of any other type.
NotStrings == {PyNone, PyInt(1), PyInt(127), PyBool(TRUE), PyList(<< >>),
               PyDict(EmptyDict)}

UrlValues == {PyText(UrlOf(u)) : u \in UrlShapes}
                \cup {PyText(t) : t \in NotUrls} \cup NotStrings

HostValues == {PyStr(h) : h \in HostNames \cup {"Localhost", "[::1]", "localhost:5432", ""}}
                \cup NotStrings

\* Port values: in range, on and beyond the limits, not numbers, infinite.
PortValues == {Missing, PyInt(1), PyInt(65535), PyInt(0), PyInt(65536),
               PyStr("bad"), PyNone, PyInf}

\* Raw configs with one local-service collector whose URL or host varies,
\* with and without a parameter the collector does not know.
LoopbackRaws ==
    {DictOf([nginx |-> DictOf([status_page_url |-> v, extra |-> x])]) :
        v \in UrlValues, x \in {Missing, PyInt(1)}}
    \cup {DictOf([caddy |-> DictOf([admin_api_url |-> v, extra |-> x])]) :
        v \in UrlValues, x \in {Missing, PyInt(1)}}
    \cup {DictOf([postgresql |-> DictOf([host |-> h, port |-> p, user |-> u,
                                          extra |-> PyInt(1)])]) :
        h \in HostValues \cup {Missing}, p \in PortValues,
        u \in {Missing, PyStr("monitor"), PyInt(1)}}
    \cup {DictOf([proxmox |-> DictOf([host |-> h, port |-> p, token_id |-> t,
                                       verify_ssl |-> v, extra |-> PyInt(1)])]) :
        h \in HostValues \cup {Missing}, p \in PortValues,
        t \in {Missing, PyStr("root@pam!monitor"), PyInt(1)},
        v \in {Missing, PyBool(TRUE), PyBool(FALSE), PyNone, PyInt(0), PyStr("no")}}

\* The characters passwords are made of.
PasswordChars == {"a", "b", "\r", "\n"}

\* Every password of up to MaxPassword characters.
Passwords ==
    UNION {[1..n -> PasswordChars] : n \in 0..MaxPassword}

\* Raw configs with a redis or a postgresql entry that carries a password.
PasswordRaws ==
    {DictOf([redis |-> DictOf([port |-> p, password |-> PyText(c)])]) :
        p \in {Missing, PyInt(6380)}, c \in Passwords}
    \cup {DictOf([postgresql |-> DictOf([password |-> PyText(c)])]) :
        c \in Passwords}
    \cup {DictOf([redis |-> DictOf([port |-> PyInt(6380), password |-> v])]) :
        v \in NotStrings}

\* Parts of a raw config under keys validate_config reads: collector entries
\* with a parameter the collector does not know, a collector given as a list,
\* an empty and a map-less proxmox entry, a ping map with entries to skip, a
\* packages map.
KnownParts ==
    {[enabled |-> PyBool(TRUE)],
     [redis |-> PyDict([port |-> PyInt(6380), unknown |-> PyStr("value")])],
     [docker |-> PyDict([socket_url |-> PyText(<<"unix://", "/var/run/docker.sock">>),
                         extra |-> PyInt(1)])],
     [docker |-> PyDict([socket_url |-> PyStr("tcp://evil.com:2375")])],
     [qemu |-> PyDict([uri |-> PyStr("qemu:///system"), extra |-> PyInt(1)])],
     [ports |-> PyDict([monitored_ports |->
                            PyList(<<PyInt(80), PyInt(0), PyStr("bad"), PyInt(443)>>),
                        extra |-> PyInt(1)])],
     [ports |-> PyDict([monitored_ports |-> PyList(<<PyInt(80), PyInf>>)])],
     [nginx |-> PyList(<<PyDict([extra |-> PyInt(1)])>>)],
     [ping |-> PyDict([eu |-> PyStr("1.1.1.1"), bad |-> PyInt(1),
                       empty |-> PyStr("")])],
     [ping |-> PyList(<<PyStr("1.1.1.1")>>)],
     [proxmox |-> PyDict(EmptyDict)],
     [proxmox |-> PyBool(TRUE)],
     [packages |-> PyDict([scan |-> PyBool(TRUE)])]}

\* Raw configs with top-level keys validate_config does not read, of any
\* type of value, next to one known part.
UnknownKeyRaws ==
    {DictOf([unknown_key |-> v, another |-> w] @@ known) :
        v \in {PyStr("value"), PyInt(42), PyNone, PyBool(TRUE), PyList(<< >>),
                PyDict([cpu |-> PyBool(TRUE)])},
        w \in {Missing, PyInt(42)},
        known \in KnownParts}

\* The flag names the backend sends: those of test_config_schema.py:616-632.
SentFlags == {"cpu", "memory", "network", "partitions", "io", "swap",
              "smart_storage_health", "raid_storage_health", "processes",
              "temperatures", "fans", "fail2ban", "ipv4", "ipv6", "nvidia_gpu"}

\* Raw configs with one flag, with two flags, and with every flag, true or
\* false.
FlagRaws ==
    {PyDict([k \in {f} |-> PyBool(b)]) : f \in SentFlags, b \in BOOLEAN}
    \cup {PyDict([k \in {f, g} |-> PyBool(k = f)]) : f \in SentFlags, g \in SentFlags}
    \cup {PyDict([k \in SentFlags |-> PyBool(b)]) : b \in BOOLEAN}
    \cup {PyDict([k \in SentFlags |->
                    PyBool(k \notin {"network", "smart_storage_health",
                                     "raid_storage_health", "ipv6"})])}

\* Raw configs with a docker and a qemu entry: socket_url and uri missing,
\* null, permitted, refused, and of a type that is no string.
SocketRaws ==
    {DictOf([docker |-> DictOf([socket_url |-> u]), qemu |-> DictOf([uri |-> q])]) :
        u \in {Missing, PyNone, PyText(<<"unix://", "/var/run/docker.sock">>),
               PyText(<<"unix://", "">>), PyStr("tcp://evil.com:2375"),
               PyStr("UNIX:///var/run/docker.sock"), PyStr(""), PyInt(1),
               PyList(<<PyStr("unix:///var/run/docker.sock")>>)},
        q \in {Missing, PyNone, PyStr("qemu:///system"), PyStr("qemu:///session"),
               PyStr("qemu+ssh://evil.com/system"), PyStr("QEMU:///system"),
               PyStr(""), PyInt(1), PyBool(FALSE)}}

RawInputs == NumericRaws \cup ShapeRaws \cup LoopbackRaws \cup PasswordRaws
                \cup UnknownKeyRaws \cup FlagRaws \cup SocketRaws

\* A caller about to hand validate_config a raw config.
InitValidate ==
    /\ queue = << >>
    /\ unfinished_tasks = 0
    /\ maxsize = MaxSize
    /\ config = DefaultConfig
    /\ config_lock = "free"
    /\ stop_event = FALSE
    /\ exit_event = FALSE
    /\ dry_run = FALSE
    /\ agent_config = EmptyDict
    /\ exit_code = -1
    /\ pc = [t \in Threads |-> "validate_call"]
    /\ caller = [t \in Threads |-> "none"]
    /\ try_count = [t \in Threads |-> 0]
    /\ sleep_time = [t \in Threads |-> 0]
    /\ response = [t \in Threads |-> JsonNull]
    /\ get_conn_calls = [t \in Threads |-> 0]
    /\ failed = [t \in Threads |-> 0]
    /\ cfg_stable = [t \in Threads |-> TRUE]
    /\ tick_used = {}
    /\ tick_log = << >>
    /\ received = 0
    /\ put_log = << >>
    /\ get_log = << >>
    /\ clear_mark = 0
    /\ raw \in RawInputs
    /\ validated = NotCalled
    /\ DetailInit

\* validate_config(raw): the call returns a config or leaves by an exception.
ValidateConfig ==
    /\ \A t \in Threads : pc[t] = "validate_call"
    /\ validated' = validate_config_value(raw)
    /\ pc' = [t \in Threads |-> "validate_done"]
    /\ UNCHANGED <<queue_vars, config, config_lock, stop_event,
                   exit_event, dry_run, agent_config, exit_code, caller, post_vars,
                   tick_vars, response, raw, detail_vars>>

SpecValidate == InitValidate /\ [][ValidateConfig]_vars

\* ------------------------------------------- Synchronizer.get_conn on its own
\* API_URL as the pieces of its text: the delimiter ":" and the runs of
\* characters around it. "localhost" is always a piece of its own, and no
\* other piece begins with it.
ApiUrls ==
    {DefaultApiUrl,
     <<"api.fivenines.io", ":", "8443">>,
     <<"api.fivenines.io", ":", "https">>,
     <<"127.0.0.1", ":", "8000">>,
     <<"localhost">>,
     <<"localhost", ":", "8080">>,
     <<"localhost", ":", "http">>,
     <<"localhost", ".evil.com">>}

\* url.startswith(prefix), for a prefix that is one piece.
StartsWith(url, prefix) == Len(url) > 0 /\ Head(url) = prefix

\* url.split(":")[n] for n = 0 and n = 1, as pieces.
SplitColon(url, n) ==
    LET first == Find(url, {":"}, 1)
        second == IF first = 0 THEN 0 ELSE Find(url, {":"}, first + 1)
    IN  IF n = 0
        THEN SubSeq(url, 1, IF first = 0 THEN Len(url) ELSE first - 1)
        ELSE SubSeq(url, first + 1, IF second = 0 THEN Len(url) ELSE second - 1)

\* The host a connection for url goes to: url.split(":")[0] on the resolving
\* path, and what HTTPConnection(url) takes before the port on the other.
HostOf(url) == Join(SplitColon(url, 0))

\* port = 443; if ":" in url: port = int(url.split(":")[1]), which is also
\* the port HTTPConnection(url) parses when url has one colon.
PortOf(url) ==
    IF Has(url, ":") THEN py_int(PyStr(Join(SplitColon(url, 1)))) ELSE Ok(443)

\* A mutant of RecordTypes: IPv6 is tried first.
RecordTypesV6First == <<"AAAA", "A">>

\* for record_type, af in [("A", socket.AF_INET), ("AAAA", socket.AF_INET6)]
RecordTypes == <<"A", "AAAA">>

\* One network operation of get_conn or of the request that follows it.
Event(op, via) == [op |-> op, via |-> via]

\* not (not url.startswith("localhost"))
IsLocal(url) == StartsWith(url, "localhost")

\* What the actions of one attempt leave alone.
attempt_frame == <<queue_vars, config, config_lock, stop_event, exit_event, dry_run,
                   agent_config, exit_code, caller, cfg_stable, tick_vars,
                   validator_vars, unit_vars, api_url, signal_vars,
                   probe_vars, start_vars>>

\* The except clause of _post up to the wait (synchronizer.py:81-87), after
\* an attempt that has delivered the entry to the backend reached times.
AttemptFailed(t, reached) ==
    /\ try_count' = [try_count EXCEPT ![t] = @ + 1]
    /\ sleep_time' = [sleep_time EXCEPT ![t] = SleepTime(config, try_count'[t])]
    /\ failed' = [failed EXCEPT ![t] = @ + 1]
    /\ received' = received + reached
    /\ pc' = [pc EXCEPT ![t] = IF HasRequestOption(config, "retry_interval")
                                 THEN "post_backoff" ELSE RaisePc(t)]
    /\ UNCHANGED response

\* conn = self.get_conn(), up to the loop over the record types or to the
\* plaintext HTTPConnection. int() of a port that is no number, and a config
\* without the timeout, raise out of get_conn into the except clause of _post.
GetConn(t) ==
    /\ pc[t] = "post_attempt"
    /\ get_conn_calls' = [get_conn_calls EXCEPT ![t] = @ + 1]
    /\ conn_log' = << >>
    /\ IF ~PortOf(api_url).ok \/ (IsLocal(api_url) /\ ~HasRequestOption(config, "timeout"))
       THEN /\ AttemptFailed(t, 0)
            /\ record' = 0
            /\ conn' = NoConn
       ELSE IF IsLocal(api_url)
       THEN /\ conn' = [kind |-> "plain"]
            /\ record' = 0
            /\ pc' = [pc EXCEPT ![t] = "conn_request"]
            /\ UNCHANGED <<try_count, sleep_time, failed, received, response>>
       ELSE /\ conn' = NoConn
            /\ record' = 1
            /\ pc' = [pc EXCEPT ![t] = "conn_resolve"]
            /\ UNCHANGED <<try_count, sleep_time, failed, received, response>>
    /\ UNCHANGED attempt_frame

\* "continue", from the test on answers or from the except clause of the
\* loop: the next record type, or "return None" after the last one.
Continue(t) ==
    IF record < Len(RecordTypes)
    THEN /\ record' = record + 1
         /\ pc' = [pc EXCEPT ![t] = "conn_resolve"]
         /\ UNCHANGED conn
    ELSE /\ record' = 0
         /\ conn' = [kind |-> "None"]
         /\ pc' = [pc EXCEPT ![t] = "conn_none"]

\* answers = resolver.resolve(record_type): addresses, or nothing (None after
\* a DNSException, an empty answer), or an exception.
Resolve(t) ==
    /\ pc[t] = "conn_resolve"
    /\ conn_log' = Append(conn_log, Event("resolve", RecordTypes[record]))
    /\ \E answers \in BOOLEAN :
          IF answers
          THEN /\ pc' = [pc EXCEPT ![t] = "conn_connect"]
               /\ UNCHANGED <<record, conn>>
          ELSE Continue(t)
    /\ UNCHANGED <<attempt_frame, post_vars, response>>

\* sock.settimeout(self.config["request_options"]["timeout"]), a KeyError
\* without the option, then sock.connect((api_ip, port)).
Connect(t) ==
    /\ pc[t] = "conn_connect"
    /\ IF ~HasRequestOption(config, "timeout")
       THEN /\ Continue(t)
            /\ UNCHANGED conn_log
       ELSE /\ conn_log' = Append(conn_log, Event("connect", RecordTypes[record]))
            /\ \E connected \in BOOLEAN :
                  IF connected
                  THEN /\ pc' = [pc EXCEPT ![t] = "conn_tls"]
                       /\ UNCHANGED <<record, conn>>
                  ELSE Continue(t)
    /\ UNCHANGED <<attempt_frame, post_vars, response>>

\* ssl_context.wrap_socket(sock, server_hostname=hostname), then the
\* HTTPSConnection around the socket is returned.
Tls(t) ==
    /\ pc[t] = "conn_tls"
    /\ conn_log' = Append(conn_log, Event("tls", RecordTypes[record]))
    /\ \E handshake \in BOOLEAN :
          IF handshake /\ HasRequestOption(config, "timeout")
          THEN /\ conn' = [kind |-> "tls"]
               /\ record' = 0
               /\ pc' = [pc EXCEPT ![t] = "conn_request"]
          ELSE Continue(t)
    /\ UNCHANGED <<attempt_frame, post_vars, response>>

\* if conn is None: raise Exception("Failed to establish connection ...")
ConnNone(t) ==
    /\ pc[t] = "conn_none"
    /\ AttemptFailed(t, 0)
    /\ UNCHANGED <<attempt_frame, get_conn_calls, record, conn, conn_log>>

\* conn.request("POST", endpoint, compressed_data, headers) with the
\* Authorization header, getresponse, read, json.loads. The request raises
\* before anything is sent, or the headers and the payload go out over the
\* connection and the answer fails or is a 200.
ConnRequest(t) ==
    /\ pc[t] = "conn_request"
    /\ \E f \in (Failures \ {"no_conn"}) \cup {"none"} :
          /\ conn_log' = conn_log \o
                (IF f = "exception" THEN <<Event("request", conn.kind)>>
                 ELSE <<Event("request", conn.kind), Event("sent", conn.kind)>>)
          /\ IF f = "none"
             THEN /\ \E b \in Bodies : SendMetricsResume(t, b)
                  /\ received' = received + Reaches(t, "none")
                  /\ UNCHANGED <<try_count, sleep_time, failed>>
             ELSE AttemptFailed(t, Reaches(t, f))
    /\ UNCHANGED <<attempt_frame, get_conn_calls, record, conn>>

\* A config with a retry count and no timeout.
RawNoTimeout ==
    [enabled |-> "True", request_options |-> [retry |-> 2, retry_interval |-> 1]]

\* The Synchronizer thread is started with API_URL set to any of ApiUrls and
\* up to two entries waiting; the Agent is in its wait for the whole of it.
InitConn ==
    /\ queue \in {<< >>, <<Data(1)>>, <<Data(1), GetConfigMsg>>}
    /\ unfinished_tasks = Len(queue)
    /\ maxsize = MaxSize
    /\ config \in {DefaultConfig, RawNoTimeout}
    /\ config_lock = "free"
    /\ stop_event = FALSE
    /\ exit_event = FALSE
    /\ dry_run = FALSE
    /\ agent_config = EmptyDict
    /\ exit_code = -1
    /\ pc = [t \in Threads |-> IF t = "agent" THEN "a_sleep" ELSE "run_start"]
    /\ caller = [t \in Threads |-> "none"]
    /\ try_count = [t \in Threads |-> 0]
    /\ sleep_time = [t \in Threads |-> 0]
    /\ response = [t \in Threads |-> JsonNull]
    /\ get_conn_calls = [t \in Threads |-> 0]
    /\ failed = [t \in Threads |-> 0]
    /\ cfg_stable = [t \in Threads |-> TRUE]
    /\ tick_used = {}
    /\ tick_log = << >>
    /\ received = 0
    /\ put_log = << >>
    /\ get_log = << >>
    /\ clear_mark = 0
    /\ raw = PyNone
    /\ validated = NotCalled
    /\ api_url \in ApiUrls
    /\ record = 0
    /\ conn = NoConn
    /\ conn_log = << >>
    /\ refresh_permissions_event = FALSE
    /\ sighup_pending = FALSE
    /\ now = 0
    /\ _last_probe_time = 0
    /\ capabilities = {}
    /\ capabilities_ref = 0
    /\ held = NoRef
    /\ heap = [r \in Refs |-> {}]
    /\ refreshed = "none"
    /\ UnitInit
    /\ token = "loaded"
    /\ created = {"queue", "synchronizer"}

SyncConnNext ==
    \/ RunStart
    \/ RunLoop
    \/ RunGet
    \/ TaskDone
    \/ PostLoop("sync")
    \/ GetConn("sync")
    \/ Resolve("sync")
    \/ Connect("sync")
    \/ Tls("sync")
    \/ ConnNone("sync")
    \/ ConnRequest("sync")
    \/ PostBackoff("sync")
    \/ SendMetricsLock("sync")
    \/ SendMetricsSet("sync")

SpecConn == InitConn /\ [][SyncConnNext]_vars

\* ------------------------------------------------------- PermissionProbe
\* Re-probe interval in seconds.
REPROBE_INTERVAL == 300

\* The capabilities whose probe can go either way, of the dict _probe_all
\* builds; the set holds those found available.
CapabilityNames == {"docker"}

Capabilities == SUBSET CapabilityNames

\* The object of a dict display: one that nothing refers to.
NewRef == CHOOSE r \in Refs : r \notin {capabilities_ref, held}

\* A mutant of Assign: the dict self.capabilities names is updated in place.
AssignInPlace(found) ==
    /\ capabilities_ref' = capabilities_ref
    /\ heap' = [heap EXCEPT ![capabilities_ref] = found]

\* self.capabilities = {...}: the attribute names a new dict object with
\* the probed values; the dict it named before keeps its contents, and an
\* object nothing refers to any more is forgotten.
Assign(found) ==
    /\ capabilities_ref' = NewRef
    /\ heap' = [r \in Refs |-> IF r = NewRef THEN found
                                ELSE IF r = held THEN heap[r] ELSE {}]

\* What the actions of the PermissionProbe leave alone.
probe_frame == <<queue_vars, config, config_lock, stop_event, exit_event, dry_run,
                 agent_config, exit_code, caller, post_vars, tick_vars,
                 validator_vars, response, unit_vars, conn_vars, refresh_permissions_event,
                 start_vars>>

\* A mutant of Due: the interval has to be exceeded.
DueLater(t, last) == t - last > REPROBE_INTERVAL

\* time.time() - self._last_probe_time >= REPROBE_INTERVAL
Due(t, last) == t - last >= REPROBE_INTERVAL

\* _probe_all() called at position at, by __init__ (returned "none"), by
\* refresh_if_needed ("True") or by force_refresh ("capabilities"):
\* _last_probe_time = time.time(), every capability probed again, and the
\* caller returns to position to.
ProbeAll(at, to, returned) ==
    /\ pc["agent"] = at
    /\ _last_probe_time' = now
    /\ \E found \in Capabilities : capabilities' = found /\ Assign(found)
    /\ held' = IF returned = "capabilities" THEN capabilities_ref' ELSE held
    /\ refreshed' = returned
    /\ pc' = [pc EXCEPT !["agent"] = to]
    /\ UNCHANGED <<probe_frame, now, sighup_pending>>

\* refresh_if_needed() called at position at: _probe_all when the interval
\* has passed, else "return False" to position to.
RefreshIfNeeded(at, to) ==
    /\ pc["agent"] = at
    /\ IF Due(now, _last_probe_time)
       THEN /\ pc' = [pc EXCEPT !["agent"] = "p_probe_periodic"]
            /\ UNCHANGED refreshed
       ELSE /\ pc' = [pc EXCEPT !["agent"] = to]
            /\ refreshed' = "False"
    /\ UNCHANGED <<probe_frame, now, _last_probe_time, capabilities, ref_vars,
                   sighup_pending>>

\* force_refresh() up to its _probe_all: the re-probe signals received so
\* far have a force_refresh that started after them.
ForceRefresh ==
    /\ pc["agent"] = "p_force"
    /\ pc' = [pc EXCEPT !["agent"] = "p_probe_forced"]
    /\ sighup_pending' = FALSE
    /\ UNCHANGED <<probe_frame, probe_vars>>

\* ---------------------------------------------- the PermissionProbe on its own
\* How far the clock is followed.
MaxTime == 900

\* The time between two looks at the clock: half the interval, give or take
\* a second.
Steps == {REPROBE_INTERVAL \div 2 - 1, REPROBE_INTERVAL \div 2, REPROBE_INTERVAL \div 2 + 1}

\* time.time() moves on.
Tick ==
    /\ \E d \in Steps :
          /\ now + d <= MaxTime
          /\ now' = now + d
    /\ UNCHANGED <<probe_frame, pc, _last_probe_time, capabilities, ref_vars,
                   refreshed, sighup_pending>>

\* A caller of the probe calls refresh_if_needed.
CallRefreshIfNeeded ==
    /\ pc["agent"] = "p_idle"
    /\ pc' = [pc EXCEPT !["agent"] = "p_if_needed"]
    /\ UNCHANGED <<probe_frame, probe_vars, sighup_pending>>

\* A caller of the probe calls force_refresh.
CallForceRefresh ==
    /\ pc["agent"] = "p_idle"
    /\ pc' = [pc EXCEPT !["agent"] = "p_force"]
    /\ UNCHANGED <<probe_frame, probe_vars, sighup_pending>>

\* PermissionProbe.__init__ has set capabilities = {} and _last_probe_time = 0
\* and is about to call _probe_all.
InitPermissions ==
    /\ queue = << >>
    /\ unfinished_tasks = 0
    /\ maxsize = MaxSize
    /\ config = DefaultConfig
    /\ config_lock = "free"
    /\ stop_event = FALSE
    /\ exit_event = FALSE
    /\ dry_run = FALSE
    /\ agent_config = EmptyDict
    /\ exit_code = -1
    /\ pc = [t \in Threads |-> IF t = "agent" THEN "p_probe_init" ELSE "unborn"]
    /\ caller = [t \in Threads |-> "none"]
    /\ try_count = [t \in Threads |-> 0]
    /\ sleep_time = [t \in Threads |-> 0]
    /\ response = [t \in Threads |-> JsonNull]
    /\ get_conn_calls = [t \in Threads |-> 0]
    /\ failed = [t \in Threads |-> 0]
    /\ cfg_stable = [t \in Threads |-> TRUE]
    /\ tick_used = {}
    /\ tick_log = << >>
    /\ received = 0
    /\ put_log = << >>
    /\ get_log = << >>
    /\ clear_mark = 0
    /\ raw = PyNone
    /\ validated = NotCalled
    /\ api_url = DefaultApiUrl
    /\ record = 0
    /\ conn = NoConn
    /\ conn_log = << >>
    /\ refresh_permissions_event = FALSE
    /\ sighup_pending = FALSE
    /\ now = 0
    /\ _last_probe_time = 0
    /\ capabilities = {}
    /\ capabilities_ref = 0
    /\ held = NoRef
    /\ heap = [r \in Refs |-> {}]
    /\ refreshed = "none"
    /\ UnitInit
    /\ token = "file_present"
    /\ created = {}

PermissionsNext ==
    \/ Tick
    \/ ProbeAll("p_probe_init", "p_idle", "none")
    \/ CallRefreshIfNeeded
    \/ RefreshIfNeeded("p_if_needed", "p_idle")
    \/ ProbeAll("p_probe_periodic", "p_idle", "True")
    \/ CallForceRefresh
    \/ ForceRefresh
    \/ ProbeAll("p_probe_forced", "p_idle", "capabilities")

SpecProbe == InitPermissions /\ [][PermissionsNext]_vars

\* ------------------------------------------------------------- start-up
\* A mutant of LoadFile: a missing file leaves the token empty.
LoadFileLenient ==
    /\ pc["agent"] = "i_token"
    /\ token' = IF token = "file_missing" THEN token ELSE "loaded"
    /\ pc' = [pc EXCEPT !["agent"] = "i_queue"]
    /\ UNCHANGED <<queue_vars, config, config_lock, stop_event, exit_event, dry_run,
                   agent_config, exit_code, caller, post_vars, tick_vars,
                   validator_vars, response, unit_vars, conn_vars, signal_vars, probe_vars,
                   created>>

\* self._load_file("TOKEN"): the text of the file becomes Agent.token, and
\* FileNotFoundError ends in sys.exit(2), which nothing catches on the way
\* out of Agent.__init__ and start().
LoadFile ==
    /\ pc["agent"] = "i_token"
    /\ IF token = "file_missing"
       THEN /\ pc' = [pc EXCEPT !["agent"] = "exited"]
            /\ exit_code' = 2
            /\ UNCHANGED token
       ELSE /\ pc' = [pc EXCEPT !["agent"] = "i_queue"]
            /\ token' = "loaded"
            /\ UNCHANGED exit_code
    /\ UNCHANGED <<queue_vars, config, config_lock, stop_event, exit_event, dry_run,
                   agent_config, caller, post_vars, tick_vars, validator_vars,
                   response, unit_vars, conn_vars, signal_vars, probe_vars, created>>

\* self.queue = SynchronizationQueue(maxsize=100)
CreateQueue ==
    /\ pc["agent"] = "i_queue"
    /\ created' = created \cup {"queue"}
    /\ queue' = << >>
    /\ unfinished_tasks' = 0
    /\ maxsize' = MaxSize
    /\ pc' = [pc EXCEPT !["agent"] = "i_sync"]
    /\ UNCHANGED <<put_log, get_log, clear_mark, config, config_lock, stop_event,
                   exit_event, dry_run, agent_config, exit_code, caller, post_vars,
                   tick_vars, validator_vars, response, unit_vars, conn_vars, signal_vars,
                   probe_vars, token>>

\* self.synchronizer = Synchronizer(self.token, self.queue)
CreateSynchronizer ==
    /\ pc["agent"] = "i_sync"
    /\ created' = created \cup {"synchronizer"}
    /\ config' = DefaultConfig
    /\ config_lock' = "free"
    /\ stop_event' = FALSE
    /\ pc' = [pc EXCEPT !["agent"] = "i_start", !["sync"] = "created"]
    /\ UNCHANGED <<queue_vars, exit_event, dry_run, agent_config, exit_code, caller,
                   post_vars, tick_vars, validator_vars, response, unit_vars, conn_vars,
                   signal_vars, probe_vars, token>>

\* self.synchronizer.start(); Agent.__init__ returns and start() calls run.
StartSynchronizer ==
    /\ pc["agent"] = "i_start"
    /\ pc' = [pc EXCEPT !["agent"] = "a_loop", !["sync"] = "run_start"]
    /\ UNCHANGED <<queue_vars, config, config_lock, stop_event, exit_event, dry_run,
                   agent_config, exit_code, caller, post_vars, tick_vars,
                   validator_vars, response, detail_vars>>

\* Agent.__init__ has installed the signal handlers and is about to probe
\* the permissions; the TOKEN file is there or not.
InitStart ==
    /\ queue = << >>
    /\ unfinished_tasks = 0
    /\ maxsize = MaxSize
    /\ config = DefaultConfig
    /\ config_lock = "free"
    /\ stop_event = FALSE
    /\ exit_event = FALSE
    /\ dry_run = FALSE
    /\ agent_config = EmptyDict
    /\ exit_code = -1
    /\ pc = [t \in Threads |-> IF t = "agent" THEN "i_probe" ELSE "unborn"]
    /\ caller = [t \in Threads |-> "none"]
    /\ try_count = [t \in Threads |-> 0]
    /\ sleep_time = [t \in Threads |-> 0]
    /\ response = [t \in Threads |-> JsonNull]
    /\ get_conn_calls = [t \in Threads |-> 0]
    /\ failed = [t \in Threads |-> 0]
    /\ cfg_stable = [t \in Threads |-> TRUE]
    /\ tick_used = {}
    /\ tick_log = << >>
    /\ received = 0
    /\ put_log = << >>
    /\ get_log = << >>
    /\ clear_mark = 0
    /\ raw = PyNone
    /\ validated = NotCalled
    /\ api_url = DefaultApiUrl
    /\ record = 0
    /\ conn = NoConn
    /\ conn_log = << >>
    /\ refresh_permissions_event = FALSE
    /\ sighup_pending = FALSE
    /\ now = 0
    /\ _last_probe_time = 0
    /\ capabilities = {}
    /\ capabilities_ref = 0
    /\ held = NoRef
    /\ heap = [r \in Refs |-> {}]
    /\ refreshed = "none"
    /\ UnitInit
    /\ token \in {"file_present", "file_missing"}
    /\ created = {}

StartNext ==
    \/ ProbeAll("i_probe", "i_token", "none")
    \/ LoadFile
    \/ CreateQueue
    \/ CreateSynchronizer
    \/ StartSynchronizer

\* The program from the start of the process on.
SpecStart == InitStart /\ [][StartNext \/ Next]_vars

\* ------------------------------------------------------ the re-probe signal
\* SIGHUP: _on_sighup sets refresh_permissions_event.
Sighup ==
    /\ exit_code = -1
    /\ refresh_permissions_event' = TRUE
    /\ sighup_pending' = TRUE
    /\ UNCHANGED <<queue_vars, config, config_lock, stop_event, exit_event, dry_run,
                   agent_config, exit_code, pc, caller, post_vars, tick_vars,
                   validator_vars, response, unit_vars, conn_vars, probe_vars, start_vars>>

\* The loop test of run as AgentLoop has it, followed by the permission
\* refresh of agent.py:172-179, which AgentLoop steps over.
AgentLoopRefresh ==
    /\ pc["agent"] = "a_loop"
    /\ pc' = [pc EXCEPT !["agent"] = IF exit_event THEN "c_clear" ELSE "p_check"]
    /\ tick_used' = {}
    /\ tick_log' = << >>
    /\ UNCHANGED <<queue_vars, config, config_lock, stop_event, exit_event, dry_run,
                   agent_config, exit_code, caller, post_vars, response, validator_vars, detail_vars>>

\* if refresh_permissions_event.is_set(): ... elif ...
PermissionCheck ==
    /\ pc["agent"] = "p_check"
    /\ pc' = [pc EXCEPT !["agent"] =
                 IF refresh_permissions_event THEN "p_clear" ELSE "p_if_needed"]
    /\ UNCHANGED <<queue_vars, config, config_lock, stop_event, exit_event, dry_run,
                   agent_config, exit_code, caller, post_vars, tick_vars,
                   validator_vars, response, detail_vars>>

\* A mutant of PermissionClear: the event is cleared and the tick goes on
\* without the force_refresh.
PermissionClearOnly ==
    /\ pc["agent"] = "p_clear"
    /\ refresh_permissions_event' = FALSE
    /\ pc' = [pc EXCEPT !["agent"] = "gc_check"]
    /\ UNCHANGED <<queue_vars, config, config_lock, stop_event, exit_event, dry_run,
                   agent_config, exit_code, caller, post_vars, tick_vars,
                   validator_vars, response, unit_vars, conn_vars, sighup_pending, probe_vars,
                   start_vars>>

\* refresh_permissions_event.clear(), with self.permissions.force_refresh()
\* next.
PermissionClear ==
    /\ pc["agent"] = "p_clear"
    /\ refresh_permissions_event' = FALSE
    /\ pc' = [pc EXCEPT !["agent"] = "p_force"]
    /\ UNCHANGED <<queue_vars, config, config_lock, stop_event, exit_event, dry_run,
                   agent_config, exit_code, caller, post_vars, tick_vars,
                   validator_vars, response, unit_vars, conn_vars, sighup_pending, probe_vars,
                   start_vars>>

\* Agent.run with the permission refresh at the head of each tick; after it
\* the tick goes on with get_config.
AgentRefreshNext ==
    \/ AgentLoopRefresh
    \/ PermissionCheck
    \/ PermissionClear
    \/ ForceRefresh
    \/ ProbeAll("p_probe_forced", "gc_check", "capabilities")
    \/ RefreshIfNeeded("p_if_needed", "gc_check")
    \/ ProbeAll("p_probe_periodic", "gc_check", "True")
    \/ GetConfigCheck
    \/ GetConfigLock
    \/ GetConfigReturn
    \/ AgentRefresh
    \/ AgentIdle
    \/ AgentCollect
    \/ AgentEnqueue
    \/ AgentSleep
    \/ CleanupClear
    \/ CleanupStop
    \/ CleanupPut
    \/ CleanupJoin
    \/ PostLoop("agent")
    \/ PostAttempt("agent")
    \/ PostBackoff("agent")
    \/ SendMetricsLock("agent")
    \/ SendMetricsSet("agent")

\* Agent.run enters its loop right after the initial probe or a re-probe
\* interval after it. The Synchronizer thread has ended already, on the
\* answer to its first request (a body that is a list or has no "config"),
\* so that the Agent fetches its configs itself and the steps below are all
\* the steps there are.
InitSignal ==
    /\ queue = << >>
    /\ unfinished_tasks = 0
    /\ maxsize = MaxSize
    /\ config = DefaultConfig
    /\ config_lock = "free"
    /\ stop_event = FALSE
    /\ exit_event = FALSE
    /\ dry_run = FALSE
    /\ agent_config = EmptyDict
    /\ exit_code = -1
    /\ pc = [t \in Threads |-> IF t = "agent" THEN "a_loop" ELSE "crashed"]
    /\ caller = [t \in Threads |-> "none"]
    /\ try_count = [t \in Threads |-> 0]
    /\ sleep_time = [t \in Threads |-> 0]
    /\ response = [t \in Threads |-> JsonNull]
    /\ get_conn_calls = [t \in Threads |-> 0]
    /\ failed = [t \in Threads |-> 0]
    /\ cfg_stable = [t \in Threads |-> TRUE]
    /\ tick_used = {}
    /\ tick_log = << >>
    /\ received = 0
    /\ put_log = << >>
    /\ get_log = << >>
    /\ clear_mark = 0
    /\ raw = PyNone
    /\ validated = NotCalled
    /\ api_url = DefaultApiUrl
    /\ record = 0
    /\ conn = NoConn
    /\ conn_log = << >>
    /\ refresh_permissions_event = FALSE
    /\ sighup_pending = FALSE
    /\ now \in {0, REPROBE_INTERVAL}
    /\ _last_probe_time = 0
    /\ capabilities = {}
    /\ capabilities_ref = 0
    /\ held = NoRef
    /\ heap = [r \in Refs |-> {}]
    /\ refreshed = "none"
    /\ UnitInit
    /\ token = "loaded"
    /\ created = {"queue", "synchronizer"}

SignalNext == Signal \/ Sighup \/ AgentRefreshNext

SpecSignal == InitSignal /\ [][SignalNext]_vars

\* The scheduler runs the Agent's thread, every timed wait runs out and
\* every single network operation returns; signals come or not.
LiveSpecSignal == SpecSignal /\ WF_vars(AgentRefreshNext)

\* ------------------------------------------------------------- debug.log
\* The levels of LOG_LEVELS that log treats alike are one level here.
Levels == {"info", "error"}

Messages == {"disk", "net"}

\* How many calls of log are followed.
MaxLines == 2

\* What the functions of debug.py leave alone.
log_frame == <<queue_vars, config, config_lock, stop_event, exit_event, dry_run,
               agent_config, exit_code, pc, caller, post_vars, tick_vars,
               validator_vars, response, conn_vars, signal_vars, probe_vars,
               start_vars, pkg_vars, ip_vars, cm_vars>>

\* start_log_capture() in thread t: _thread_local.log_buffer = []
StartLogCapture(t) ==
    /\ log_buffer' = [log_buffer EXCEPT ![t] = LogBuffer(<< >>)]
    /\ window_start' = [window_start EXCEPT ![t] = Len(log_lines)]
    /\ UNCHANGED <<log_frame, log_lines, captured>>

\* stop_log_capture() in thread t: the thread's attribute is set to None
\* and "buffer or []" is returned.
StopLogCapture(t) ==
    /\ captured' = [captured EXCEPT ![t] =
                       IF log_buffer[t] = NoLogBuffer THEN << >> ELSE log_buffer[t].lines]
    /\ log_buffer' = [log_buffer EXCEPT ![t] = NoLogBuffer]
    /\ UNCHANGED <<log_frame, log_lines, window_start>>

\* A mutant of Log: one buffer for all threads.
LogAnyThread(t, message, level) ==
    /\ Len(log_lines) < MaxLines
    /\ log_lines' = Append(log_lines, [thread |-> t, message |-> message, level |-> level])
    /\ log_buffer' = [u \in Threads |->
                         IF log_buffer[u] # NoLogBuffer /\ level = "error"
                         THEN LogBuffer(Append(log_buffer[u].lines, message))
                         ELSE log_buffer[u]]
    /\ UNCHANGED <<log_frame, window_start, captured>>

\* log(message, level) in thread t, the line printed to stdout aside:
\* buffer = getattr(_thread_local, 'log_buffer', None), and
\* buffer.append(message) if buffer is not None and level == 'error'.
Log(t, message, level) ==
    /\ Len(log_lines) < MaxLines
    /\ log_lines' = Append(log_lines, [thread |-> t, message |-> message, level |-> level])
    /\ log_buffer' = [log_buffer EXCEPT ![t] =
                         IF log_buffer[t] # NoLogBuffer /\ level = "error"
                         THEN LogBuffer(Append(log_buffer[t].lines, message))
                         ELSE log_buffer[t]]
    /\ UNCHANGED <<log_frame, window_start, captured>>

LogNext ==
    \E t \in Threads :
        \/ StartLogCapture(t)
        \/ StopLogCapture(t)
        \/ \E message \in Messages, level \in Levels : Log(t, message, level)

\* The functions of debug.py called by two threads in any order, from the
\* state in which no thread has a buffer.
SpecLog == Init /\ [][LogNext]_vars

\* ------------------------------------------------------- packages_sync
\* An installed package as get_installed_packages lists it.
Package(name, version) == [name |-> name, version |-> version]

\* The lists get_installed_packages returns here, sorted by name; the empty
\* one also stands for "no supported package manager" and for a failure.
PackageLists ==
    {<< >>,
     <<Package("bash", "5.1")>>,
     <<Package("bash", "5.2")>>,
     <<Package("bash", "5.1"), Package("curl", "8.0")>>}

\* "".join(f"{p['name']}={p['version']}\n" for p in packages), in pieces.
RECURSIVE HashContent(_)
HashContent(packages) ==
    IF packages = << >> THEN << >>
    ELSE <<Head(packages).name, "=", Head(packages).version, "\n">>
             \o HashContent(Tail(packages))

\* get_packages_hash(packages): the SHA256 hex digest of the content, taken
\* as free of collisions: equal digests come from equal contents.
get_packages_hash(packages) == [type |-> "str", sha256 |-> HashContent(packages)]

\* The values the config has under "packages": none, values that are no
\* dict, and dicts with and without scan and last_package_hash.
PackagesEntries ==
    {Missing, PyNone, PyBool(TRUE), PyStr("scan"), PyList(<<PyStr("scan")>>)}
    \cup {DictOf([scan |-> sc, last_package_hash |-> h]) :
            sc \in {Missing, PyNone, PyBool(FALSE), PyBool(TRUE), PyInt(0), PyInt(1),
                    PyStr("yes")},
            h \in {Missing, PyNone, PyStr("stale"), PyInt(5)}
                    \cup {get_packages_hash(l) : l \in PackageLists}}

\* What send_packages_fn returns: None for a failed send, else the answer.
SendResults == {"None", "answer"}

\* What packages_sync leaves alone.
pkg_frame == <<queue_vars, config, config_lock, stop_event, exit_event, dry_run,
               agent_config, exit_code, pc, caller, post_vars, tick_vars,
               validator_vars, response, conn_vars, signal_vars, probe_vars,
               start_vars, log_vars, ip_vars, cm_vars>>

\* The body of packages_sync for the entry the config has under "packages",
\* the packages installed, the dry-run setting and the answer a send would
\* get: each test returns early, and only the last statement sends.
PackagesSyncBody(packages_config, packages, dry, result) ==
    IF packages_config.type # "dict"
    THEN pkg_sent' = << >> /\ pkg_log' = "none"
    ELSE IF ~PyTruthy(Get(packages_config.dict, "scan", PyNone))
    THEN pkg_sent' = << >> /\ pkg_log' = "none"
    ELSE IF packages = << >>
    THEN pkg_sent' = << >> /\ pkg_log' = "no packages found"
    ELSE IF get_packages_hash(packages)
                = Get(packages_config.dict, "last_package_hash", PyNone)
    THEN pkg_sent' = << >> /\ pkg_log' = "packages unchanged, skipping"
    ELSE IF dry
    THEN pkg_sent' = << >> /\ pkg_log' = "dry-run"
    ELSE /\ pkg_sent' = <<[distro |-> "distro",
                           packages_hash |-> get_packages_hash(packages),
                           packages |-> packages]>>
         /\ pkg_log' = IF result # "None" THEN "sent successfully"
                                          ELSE "failed, will retry"

\* A mutant of PackagesSync: the dry-run setting is not looked at.
PackagesSyncDryRunToo ==
    \E packages_config \in PackagesEntries, packages \in PackageLists,
       result \in SendResults :
        /\ pkg_call' = [called |-> TRUE, packages_config |-> packages_config,
                        packages |-> packages, dry_run |-> dry_run]
        /\ PackagesSyncBody(packages_config, packages, FALSE, result)
        /\ UNCHANGED pkg_frame

\* One call packages_sync(config, send_packages_fn), from the first
\* statement to the return.
PackagesSync ==
    \E packages_config \in PackagesEntries, packages \in PackageLists,
       result \in SendResults :
        /\ pkg_call' = [called |-> TRUE, packages_config |-> packages_config,
                        packages |-> packages, dry_run |-> dry_run]
        /\ PackagesSyncBody(packages_config, packages, dry_run, result)
        /\ UNCHANGED pkg_frame

\* packages_sync called again and again, with dry-run on and off.
SpecPackages == Init /\ [][PackagesSync]_vars

\* ----------------------------------------------------------------- get_ip
\* The seconds a cached address is used for (ip.py:55, 58).
IP_CACHE_TTL == 60

\* How far the clock is followed past IpEpoch, and in which steps.
MaxIpTime == 90
IpStep == 30

\* How many calls of get_ip are followed.
MaxIpCalls == 3

\* What GET https://ip.fivenines.io/ can end with for a family: status 200
\* with the address and a newline, another status, an exception.
IpAnswers(ipv6) ==
    {[status |-> 200, body |-> <<a, "\n">>] :
        a \in IF ipv6 THEN {"2001:db8::1"} ELSE {"1.2.3.4", "5.6.7.8"}}
    \cup {[status |-> 503, body |-> <<"unavailable">>], [status |-> 0, body |-> << >>]}

\* body.strip() for a body given in pieces: the address without the newline.
RECURSIVE Strip(_)
Strip(body) ==
    IF body = << >> THEN ""
    ELSE IF body[Len(body)] \in {"\n", " "} THEN Strip(SubSeq(body, 1, Len(body) - 1))
    ELSE IF Head(body) \in {"\n", " "} THEN Strip(Tail(body))
    ELSE Head(body)

\* What get_ip leaves alone.
ip_frame == <<queue_vars, config, config_lock, stop_event, exit_event, dry_run,
              agent_config, exit_code, pc, caller, post_vars, tick_vars,
              validator_vars, response, conn_vars, signal_vars, probe_vars,
              start_vars, log_vars, pkg_vars, cm_vars>>

\* time.time() moves on.
IpTick ==
    /\ ip_now + IpStep <= IpEpoch + MaxIpTime
    /\ ip_now' = ip_now + IpStep
    /\ UNCHANGED <<ip_frame, _ip_v4_cache, _ip_v6_cache, ip_calls>>

\* The cache get_ip looks at for a family.
IpCache(ipv6) == IF ipv6 THEN _ip_v6_cache ELSE _ip_v4_cache

\* What a call returns after the request: body.strip() on 200, else None.
IpResult(answer) == IF answer.status = 200 THEN Strip(answer.body) ELSE "None"

\* A mutant of GetIp: the address of a 200 answer and the time of the call
\* are stored in the family's cache.
GetIpStoring(ipv6) ==
    /\ Len(ip_calls) < MaxIpCalls
    /\ IF ip_now - IpCache(ipv6).timestamp < IP_CACHE_TTL
       THEN /\ ip_calls' = Append(ip_calls, [ipv6 |-> ipv6, at |-> ip_now,
                                             requested |-> FALSE,
                                             result |-> IpCache(ipv6).ip])
            /\ UNCHANGED <<_ip_v4_cache, _ip_v6_cache>>
       ELSE \E answer \in IpAnswers(ipv6) :
               /\ ip_calls' = Append(ip_calls, [ipv6 |-> ipv6, at |-> ip_now,
                                                requested |-> TRUE,
                                                result |-> IpResult(answer)])
               /\ IF answer.status # 200
                  THEN UNCHANGED <<_ip_v4_cache, _ip_v6_cache>>
                  ELSE IF ipv6
                  THEN /\ _ip_v6_cache' = [timestamp |-> ip_now, ip |-> IpResult(answer)]
                       /\ UNCHANGED _ip_v4_cache
                  ELSE /\ _ip_v4_cache' = [timestamp |-> ip_now, ip |-> IpResult(answer)]
                       /\ UNCHANGED _ip_v6_cache
    /\ UNCHANGED <<ip_frame, ip_now>>

\* get_ip(ipv6): now = time.time(); the cached ip when the family's cache
\* is younger than 60 seconds; else one CustomHTTPSConnection, one GET, and
\* body.strip() or None is returned. No statement of get_ip assigns to
\* _ip_v4_cache or _ip_v6_cache.
GetIp(ipv6) ==
    /\ Len(ip_calls) < MaxIpCalls
    /\ IF ip_now - IpCache(ipv6).timestamp < IP_CACHE_TTL
       THEN ip_calls' = Append(ip_calls, [ipv6 |-> ipv6, at |-> ip_now,
                                          requested |-> FALSE,
                                          result |-> IpCache(ipv6).ip])
       ELSE \E answer \in IpAnswers(ipv6) :
               ip_calls' = Append(ip_calls, [ipv6 |-> ipv6, at |-> ip_now,
                                             requested |-> TRUE,
                                             result |-> IpResult(answer)])
    /\ UNCHANGED <<ip_frame, ip_now, _ip_v4_cache, _ip_v6_cache>>

IpNext == IpTick \/ GetIp(FALSE) \/ GetIp(TRUE)

\* get_ip called for either family as the clock moves on.
SpecIp == Init /\ [][IpNext]_vars

\* -------------------------------------------------------- collect_metrics
\* One collector of the registry: the config key it is listed under, the
\* key of data it fills, the function and pass_kwargs.
Collector(config_key, data_key, fn, pass_kwargs) ==
    [config_key |-> config_key, data_key |-> data_key, fn |-> fn,
     pass_kwargs |-> pass_kwargs]

\* COLLECTORS in the order the two loops of collect_metrics go through it.
COLLECTORS ==
    <<Collector("cpu", "cpu", "cpu_data", FALSE),
      Collector("cpu", "cpu_usage", "cpu_usage", FALSE),
      Collector("cpu", "cpu_model", "cpu_model", FALSE),
      Collector("cpu", "cpu_count", "cpu_count", FALSE),
      Collector("memory", "memory", "memory", FALSE),
      Collector("memory", "swap", "swap", FALSE),
      Collector("network", "network", "network", FALSE),
      Collector("partitions", "partitions_metadata", "partitions_metadata", FALSE),
      Collector("partitions", "partitions_usage", "partitions_usage", FALSE),
      Collector("io", "io", "io", FALSE),
      Collector("smart_storage_health", "smart_storage_identification",
                "smart_storage_identification", FALSE),
      Collector("smart_storage_health", "smart_storage_health",
                "smart_storage_health", FALSE),
      Collector("raid_storage_health", "raid_storage_health", "raid_storage_health", FALSE),
      Collector("processes", "processes", "processes", FALSE),
      Collector("ports", "ports", "listening_ports", TRUE),
      Collector("temperatures", "temperatures", "temperatures", FALSE),
      Collector("fans", "fans", "fans", FALSE),
      Collector("redis", "redis", "redis_metrics", TRUE),
      Collector("nginx", "nginx", "nginx_metrics", TRUE),
      Collector("docker", "docker", "docker_metrics", TRUE),
      Collector("qemu", "qemu", "qemu_metrics", TRUE),
      Collector("fail2ban", "fail2ban", "fail2ban_metrics", FALSE),
      Collector("caddy", "caddy", "caddy_metrics", TRUE),
      Collector("postgresql", "postgresql", "postgresql_metrics", TRUE),
      Collector("proxmox", "proxmox", "proxmox_metrics", TRUE)>>

\* The parameter names in the def of a function of the registry; the
\* functions listed with pass_kwargs False have none.
Parameters(fn) ==
    CASE fn = "listening_ports" -> {}
      [] fn = "redis_metrics" -> {"port", "password"}
      [] fn = "nginx_metrics" -> {"status_page_url", "status_page_port"}
      [] fn = "docker_metrics" -> {"socket_url"}
      [] fn = "qemu_metrics" -> {"uri"}
      [] fn = "caddy_metrics" -> {"admin_api_url"}
      [] fn = "postgresql_metrics" -> {"host", "port", "user", "password", "database"}
      [] fn = "proxmox_metrics" -> {"host", "port", "token_id", "token_secret",
                                    "verify_ssl"}
      [] OTHER -> {}

\* fn(**kw) binds: every keyword is a parameter of fn; else TypeError.
Binds(fn, kw) == DOMAIN kw \subseteq Parameters(fn)

\* Configs for collect_metrics: values of every kind under a flag, under
\* two keys whose collectors take parameters, and under a later flag.
CollectConfigs ==
    {DictOf([cpu |-> c, ports |-> p, fans |-> f, redis |-> r]) :
        c \in {Missing, PyBool(FALSE), PyBool(TRUE), PyInt(0),
               PyDict([unknown |-> PyInt(1)])},
        p \in {Missing, PyBool(TRUE), PyDict(EmptyDict), PyList(<<PyInt(80)>>),
               PyDict([monitored_ports |-> PyList(<<PyInt(80)>>)])},
        f \in {Missing, PyNone, PyBool(TRUE)},
        r \in {Missing, PyStr(""), PyBool(TRUE), PyDict([port |-> PyInt(6380)])}}

\* What collect_metrics leaves alone.
cm_frame == <<queue_vars, config, config_lock, stop_event, exit_event, dry_run,
              agent_config, exit_code, pc, caller, post_vars, tick_vars,
              validator_vars, response, conn_vars, signal_vars, probe_vars,
              start_vars, log_vars, pkg_vars, ip_vars>>

\* collect_metrics(config, data, telemetry) is called with an empty data.
CallCollectMetrics ==
    /\ cm_pos = 0
    /\ \E c \in CollectConfigs, telemetry \in BOOLEAN :
          cm_args' = [called |-> TRUE, config |-> c, telemetry |-> telemetry]
    /\ cm_pos' = 1
    /\ cm_calls' = << >>
    /\ cm_data' = {}
    /\ UNCHANGED cm_frame

\* The position after the call has ended, by return or by an exception.
CollectReturned == Len(COLLECTORS) + 1
CollectRaised == Len(COLLECTORS) + 2

\* kw = config_value if pass_kwargs and isinstance(config_value, dict) else {}
Kwargs(collector, config_value) ==
    IF collector.pass_kwargs /\ config_value.type = "dict"
    THEN config_value.dict ELSE EmptyDict

\* One turn of the loops for the collector at cm_pos: nothing when the
\* value of its config key is false; else the call fn(**kw), whose result
\* goes into data. A call that does not bind raises TypeError, which
\* _collect_with_telemetry catches (data gets None) and which leaves
\* collect_metrics when there is no telemetry. The bodies of the collectors
\* are taken to return.
CollectStep ==
    /\ cm_pos \in 1..Len(COLLECTORS)
    /\ LET collector == COLLECTORS[cm_pos]
           config_value == Get(cm_args.config.dict, collector.config_key, PyNone)
           kw == Kwargs(collector, config_value)
       IN  IF ~PyTruthy(config_value)
           THEN /\ cm_pos' = cm_pos + 1
                /\ UNCHANGED <<cm_calls, cm_data>>
           ELSE /\ cm_calls' = Append(cm_calls, [fn |-> collector.fn, kw |-> kw])
                /\ IF Binds(collector.fn, kw) \/ cm_args.telemetry
                   THEN /\ cm_data' = cm_data \cup {collector.data_key}
                        /\ cm_pos' = cm_pos + 1
                   ELSE /\ cm_pos' = CollectRaised
                        /\ UNCHANGED cm_data
    /\ UNCHANGED <<cm_frame, cm_args>>

\* The caller goes on to its next call.
CollectDone ==
    /\ cm_pos \in {CollectReturned, CollectRaised}
    /\ cm_pos' = 0
    /\ UNCHANGED <<cm_frame, cm_args, cm_calls, cm_data>>

CollectNext == CallCollectMetrics \/ CollectStep \/ CollectDone

\* collect_metrics called again and again.
SpecCollect == Init /\ [][CollectNext]_vars

\* =================================================================== claims
LastN(s, n) == SubSeq(s, (IF Len(s) > n THEN Len(s) - n ELSE 0) + 1, Len(s))

\* C1: after each put of a run of puts with no get, the queue holds at most
\* maxsize entries and they are the most recent maxsize entries put, in
\* their original order.
C1_PutKeepsMostRecentC ==
    /\ Len(queue) <= maxsize
    /\ queue = LastN(put_log, maxsize)

\* The options the retry loop reads are all configured.
CompleteOptions(c) ==
    /\ HasRequestOption(c, "timeout")
    /\ HasRequestOption(c, "retry")
    /\ HasRequestOption(c, "retry_interval")

C3_SuccessAfterNFailures ==
    [][\A t \in Threads :
          /\ (pc[t] = "post_attempt" /\ cfg_stable[t] /\ HasRequestOption(config, "retry"))
                => failed[t] < config.request_options.retry
          /\ (pc[t] = "post_attempt" /\ pc'[t] = "sm_lock")
                => /\ get_conn_calls'[t] = failed[t] + 1
                   /\ try_count'[t] = failed[t]
                   /\ failed'[t] = failed[t]
                   /\ \E c \in RawConfigs : response'[t] = JsonObject([config |-> c])
          /\ (pc[t] = "sm_set" /\ pc'[t] # "sm_set")
                => /\ config' = response[t].dict.config
                   /\ pc'[t] = AfterSendMetrics(caller[t])]_vars

\* C3 witness: the Synchronizer has adopted the config answered to its
\* attempt 3, after two failures.
C3_Witness ==
    /\ pc["sync"] = "run_loop"
    /\ caller["sync"] = "run_init"
    /\ failed["sync"] = 2
    /\ get_conn_calls["sync"] = 3
    /\ config = RawEnabled
    /\ ~stop_event

\* C4: a backoff wait of _post that finds the stop signal set ends the retry
\* loop: the thread's next step returns None to send_metrics and no further
\* attempt of that call is made.
C4_StopEndsBackoff ==
    [][\A t \in Threads :
          (pc[t] = "post_backoff" /\ stop_event /\ pc'[t] # "post_backoff")
          => /\ pc'[t] = AfterSendMetrics(caller[t])
             /\ response'[t] = JsonNull
             /\ get_conn_calls'[t] = get_conn_calls[t]]_vars

\* C4 witness: the Synchronizer is back in run after a send that failed once
\* under the startup config (retry 3) and was cut short by the stop signal.
C4_Witness ==
    /\ pc["sync"] = "task_done"
    /\ stop_event
    /\ config = DefaultConfig
    /\ failed["sync"] = 1
    /\ get_conn_calls["sync"] = 1

SyncEnded == pc["sync"] \in {"stopped", "crashed"}

\* C5: after a termination signal the cleanup eventually completes: the
\* Synchronizer thread has ended and the process has exited with code 0.
C5_SignalLeadsToExit ==
    exit_event ~> (pc["agent"] = "exited" /\ SyncEnded /\ exit_code = 0)

\* C5 witness: the process has exited with code 0 after a signal (no dry run,
\* so only the signal handler can have set exit_event), the
\* Synchronizer having left its loop on the stop signal.
C5_Witness ==
    /\ exit_event
    /\ ~dry_run
    /\ pc["agent"] = "exited"
    /\ pc["sync"] = "stopped"
    /\ exit_code = 0

\* A thread that no step of its own can move until time passes or another
\* thread acts.
Blocked(u) ==
    \/ pc[u] \in {"stopped", "crashed", "exited"}
    \/ pc[u] = "post_backoff" /\ ~stop_event
    \/ pc[u] = "run_get" /\ queue = << >>
    \/ pc[u] \in {"sm_lock", "gc_lock"} /\ config_lock # "free"
    \/ pc[u] = "c_join" /\ ~SyncEnded

\* C6: once the termination signal is delivered no backoff wait is left to
\* run for its full duration: a thread never sits in a backoff wait with the
\* stop signal unset while no other thread can act to set it.
C6_SignalEndsEveryWait ==
    exit_event =>
        ~ \E t \in Threads :
              /\ pc[t] = "post_backoff"
              /\ ~stop_event
              /\ \A u \in Threads \ {t} : Blocked(u)

ValidatedConfigs == {validate_config(r) : r \in RawConfigs}

\* C7: the live config, and the config the Agent works from, is the startup
\* default or the output of validate_config on a backend config.
C7_OnlyValidatedConfig ==
    /\ config \in {DefaultConfig} \cup ValidatedConfigs
    /\ agent_config \in {EmptyDict, DefaultConfig} \cup ValidatedConfigs

\* C8: all decisions of one Agent tick (enabled check, collectors, sleep
\* interval) read one single config value, whatever the Synchronizer writes
\* to the live slot meanwhile.
C8_OneConfigPerTick == Cardinality(tick_used) <= 1

\* C8 witness: the Agent sleeps at the end of a tick decided on one config
\* while the live slot already holds another.
C8_Witness ==
    /\ pc["agent"] = "a_sleep"
    /\ tick_used = {agent_config}
    /\ config # agent_config

\* C9: get_config reads the live config for its return value only while it
\* holds config_lock, on both of its paths.
C9_ReadsUnderLock ==
    pc["agent"] \in {"gc_return", "gc_return_locked"} => config_lock = "agent"

\* C10: the Synchronizer thread never ends on an uncaught error.
C10_SyncNeverCrashes == pc["sync"] # "crashed"

\* The Synchronizer is inside a send: _post or the config update after it.
Sending(t) == InPost(t) \/ pc[t] \in {"sm_lock", "sm_set"}

\* The send run made for the entry it dequeued came back after as many
\* failed attempts as the retry count allows, with no attempt answered and
\* the stop signal unset.
Exhausted ==
    /\ pc["sync"] = "task_done"
    /\ ~stop_event
    /\ HasRequestOption(config, "retry")
    /\ failed["sync"] = get_conn_calls["sync"]
    /\ failed["sync"] >= config.request_options.retry

\* C11: an entry the Synchronizer dequeues starts exactly one send call; a
\* send call of run starts only at a dequeue and no step of the Synchronizer
\* puts an entry back, so the entry is never re-enqueued or sent again; and
\* after a send that exhausted its retries the Synchronizer's next steps are
\* the return to the loop test and, the stop signal unset, the next dequeue.
C11_EntrySentOnceThenDropped ==
    [][/\ (pc["sync"] = "run_get" /\ pc'["sync"] # "run_get" /\ Head(queue) # Sentinel)
            => (pc'["sync"] = "post_loop" /\ caller'["sync"] = "run_send")
       /\ (~Sending("sync") /\ Sending("sync")' /\ pc["sync"] # "run_start")
            => (pc["sync"] = "run_get" /\ queue' = Tail(queue))
       /\ (pc'["sync"] # pc["sync"]) => (queue' = queue \/ queue' = Tail(queue))
       /\ (Exhausted /\ pc'["sync"] # pc["sync"]) => pc'["sync"] = "run_loop"
       /\ (pc["sync"] = "run_loop" /\ ~stop_event /\ pc'["sync"] # pc["sync"])
            => pc'["sync"] = "run_get"]_vars

\* C12 (as claimed): the backend receives the entry run is sending at most
\* once, retries included.
C12_AtMostOnceDelivery == received <= 1

\* C12 (amended): the backend receives the entry run is sending at most once
\* per attempt of its one send call, so at most as many times as the retry
\* count in force during that send.
C12_AtMostOncePerAttempt ==
    /\ received <= get_conn_calls["sync"]
    /\ (InPost("sync") /\ caller["sync"] = "run_send" /\ cfg_stable["sync"]
            /\ HasRequestOption(config, "retry"))
          => received <= config.request_options.retry

\* C12 witness: under the startup config (retry 3) the send of a dequeued
\* entry is in the wait after its third attempt, each attempt having failed
\* on the answer and the backend having received the entry three times.
C12_Witness ==
    /\ pc["sync"] = "post_backoff"
    /\ cfg_stable["sync"]
    /\ caller["sync"] = "run_send"
    /\ config = DefaultConfig
    /\ get_conn_calls["sync"] = 3
    /\ received = 3

\* C13: every entry get returns was put after the last clear: once clear has
\* returned, get returns nothing until a later put, and then an entry put
\* after the clear.
C13_NoStaleEntryAfterClear ==
    [][Len(get_log') > Len(get_log)
          => /\ clear_mark < Len(put_log)
             /\ get_log'[Len(get_log')]
                    \in {put_log[k] : k \in (clear_mark + 1)..Len(put_log)}]_vars

\* C13 witness: entries 1 and 2 were pending when clear ran, entry 3 was put
\* afterwards, and the only entry get has returned is entry 3.
C13_Witness ==
    /\ put_log = <<Data(1), Data(2), Data(3)>>
    /\ clear_mark = 2
    /\ get_log = <<Data(3)>>

\* C14: put can complete in every state of the queue, whatever its size and
\* whether or not entries are being consumed (the model stops putting after
\* MaxPuts puts).
C14_PutNeverBlocks == (Len(put_log) < MaxPuts) => ENABLED Put

\* C14 witness: with no get and no clear, maxsize + 2 puts have completed:
\* the last one found the queue above capacity and still went through.
C14_Witness ==
    /\ get_log = << >>
    /\ clear_mark = 0
    /\ Len(put_log) = maxsize + 2
    /\ Len(queue) = maxsize + 1

Range(f) == {f[i] : i \in DOMAIN f}

\* The enabled flag of c is false, null or missing.
FlagOff(c) == ~HasKey(c, "enabled") \/ c.enabled \in {"False", "None"}

\* The Agent is inside a tick, past get_config.
InTick == pc["agent"] \in {"a_refresh", "a_idle", "a_collect", "a_put", "a_sleep"}

\* C15: in a tick whose config has a false, null or missing enabled flag the
\* Agent calls no collector, puts exactly one entry, the config-refresh
\* message, and then sits in the idle wait on exit_event; and the collectors
\* are never reached while the live config is the startup default.
C15_DisabledTickOnlyRefreshes ==
    /\ (InTick /\ FlagOff(agent_config))
          => /\ pc["agent"] \in {"a_refresh", "a_idle"}
             /\ pc["agent"] = "a_refresh" => tick_log = << >>
             /\ pc["agent"] = "a_idle" => tick_log = <<"put_get_config">>
    /\ (pc["agent"] = "a_collect" \/ "collect" \in Range(tick_log))
          => (~FlagOff(agent_config) /\ config # DefaultConfig)

\* C15 witness: the first fetch failed, get_config returned the startup
\* default (enabled null), and the Agent idles having put the config-refresh
\* message and nothing else, the queue holding just that message.
C15_Witness ==
    /\ pc["agent"] = "a_idle"
    /\ agent_config = DefaultConfig
    /\ config = DefaultConfig
    /\ tick_log = <<"put_get_config">>
    /\ queue = <<GetConfigMsg>>

\* C16: a tick in which an enabled collector raised goes on to put its
\* snapshot (carrying null for that collector's key and the error in its
\* telemetry entry) on the queue.
C16_RaisingCollectorIsIsolated ==
    (~dry_run /\ "raise" \in Range(tick_log))
        => (pc["agent"] = "a_put" \/ "put_data" \in Range(tick_log))

\* The Synchronizer's first config request has been issued and has returned.
InitialRequestDone ==
    /\ caller["sync"] # "none"
    /\ ~(caller["sync"] = "run_init" /\ Sending("sync"))

\* C17: the first step of the Synchronizer thread issues a config request,
\* and the thread takes no entry off the queue before that request has
\* returned.
C17_ConfigRequestBeforeDequeue ==
    [][/\ (pc["sync"] = "run_start" /\ pc'["sync"] # "run_start")
            => /\ pc'["sync"] = "post_loop"
               /\ caller'["sync"] = "run_init"
               /\ queue' = queue
       /\ (pc'["sync"] # pc["sync"] /\ queue' # queue) => InitialRequestDone]_vars

\* C17 witness: the first request failed all its attempts (the live config is
\* still the startup default) and the Synchronizer has since dequeued an
\* entry and begun to send it.
C17_Witness ==
    /\ pc["sync"] = "post_loop"
    /\ caller["sync"] = "run_send"
    /\ config = DefaultConfig

\* C18: get_config makes a config request exactly when the live enabled flag
\* is null, and otherwise goes on to return the live config under the lock
\* with no request; what it returns is the live config at the return.
C18_GetConfigFetchesOnlyWhenNull ==
    [][/\ (pc["agent"] = "gc_check" /\ pc'["agent"] # "gc_check")
            => IF HasKey(config, "enabled") /\ config.enabled = "None"
               THEN pc'["agent"] = "post_loop" /\ caller'["agent"] = "get_config"
               ELSE pc'["agent"] = "gc_lock"
       /\ (pc["agent"] \in {"gc_return", "gc_return_locked"}
               /\ pc'["agent"] # pc["agent"])
            => agent_config' = config]_vars


\* The call has taken place.
Validated == \A t \in Threads : pc[t] = "validate_done"

\* C19: validate_config never raises, whatever config object the backend
\* supplies: a request_options that is not a map, a list-valued qemu uri or a
\* non-finite number yields a default or a disabled feature, not an exception.
C19_ValidateNeverRaises == Validated => validated.ok

\* The value the raw config has for a numeric field of request_options, which
\* validate_config replaces by an empty map when it is false.
RawOption(k) ==
    LET opts == Get(raw.dict, "request_options", PyNone)
    IN  IF opts.type = "dict" THEN Get(opts.dict, k, Missing) ELSE Missing

\* int() returns no number for v: v is missing or not numeric.
NonNumeric(v) ==
    \/ v.type \in {"missing", "NoneType", "list", "dict"}
    \/ v.type = "str" /\ v.str \notin DOMAIN IntLiterals
    \/ v.type = "float" /\ v.float = "nan"

\* v is a value the claim speaks of: an integer, a non-number or no value.
InScope(v) == v.type = "int" \/ NonNumeric(v)

\* The raw config has nothing but the numeric fields to validate, each in
\* scope, and its request_options is a map or missing.
OnlyNumericFields ==
    /\ DOMAIN raw.dict \subseteq {"interval", "request_options"}
    /\ Get(raw.dict, "request_options", PyDict(EmptyDict)).type = "dict"
    /\ InScope(Get(raw.dict, "interval", Missing))
    /\ \A k \in {"timeout", "retry", "retry_interval"} : InScope(RawOption(k))

\* out is what the claim promises for the input v of a field.
ClampedAs(v, out, lo, hi, default) ==
    /\ out.type = "int"
    /\ out.int \in lo..hi
    /\ (v.type = "int" /\ v.int \in lo..hi) => out.int = v.int
    /\ (v.type = "int" /\ v.int < lo) => out.int = lo
    /\ (v.type = "int" /\ v.int > hi) => out.int = hi
    /\ NonNumeric(v) => out.int = default

\* C20: after validation the interval lies in [30, 3600], the timeout in
\* [1, 60], the retry count in [1, 10] and the retry interval in [1, 120]; an
\* in-range integer is kept, an out-of-range integer becomes the nearest
\* limit, a non-numeric or missing value becomes the default 60, 5, 3 or 5;
\* such values never make the call raise.
C20_NumericFieldsClamped ==
    /\ (Validated /\ OnlyNumericFields) => validated.ok
    /\ (Validated /\ validated.ok) =>
        LET out == validated.val.dict
            opts == out.request_options.dict
        IN  /\ ClampedAs(Get(raw.dict, "interval", Missing), out.interval,
                         INTERVAL_MIN, INTERVAL_MAX, 60)
            /\ ClampedAs(RawOption("timeout"), opts.timeout,
                         TIMEOUT_MIN, TIMEOUT_MAX, 5)
            /\ ClampedAs(RawOption("retry"), opts.retry,
                         RETRY_MIN, RETRY_MAX, 3)
            /\ ClampedAs(RawOption("retry_interval"), opts.retry_interval,
                         RETRY_INTERVAL_MIN, RETRY_INTERVAL_MAX, 5)

\* An interval above the limit, a timeout that is no number, a retry count
\* below the limit and no retry interval have been validated.
C20_Witness ==
    /\ Validated
    /\ raw = RawOf(PyInt(INTERVAL_MAX + 1), PyStr("bad"), PyInt(RETRY_MIN - 1), Missing)
    /\ validated.ok
    /\ validated.val.dict.interval = PyInt(INTERVAL_MAX)
    /\ validated.val.dict.request_options =
           PyDict([timeout |-> PyInt(5), retry |-> PyInt(RETRY_MIN),
                   retry_interval |-> PyInt(5)])

\* The url value names a loopback host: it is a URL with an authority whose
\* host is localhost, 127.0.0.1 or ::1, in either case of the letters.
UrlNamesLoopback(v) ==
    /\ v.type = "str"
    /\ \E u \in UrlShapes :
          /\ Pieces(v) = UrlOf(u)
          /\ u.host \in {"localhost", "LOCALHOST", "127.0.0.1", "::1"}

\* The host value names a loopback host.
HostNamesLoopback(v) ==
    /\ v.type = "str"
    /\ v.str \in {"localhost", "LOCALHOST", "Localhost", "127.0.0.1", "::1"}

\* The port of the entry is a number within 1..65535 or is left to its default.
PortValid(e) ==
    LET p == Get(e.dict, "port", PyInt(1))
    IN  p.type = "int" /\ p.int \in 1..65535

\* The field k of the entry is missing or of one of the types.
FieldIs(e, k, types) == k \in DOMAIN e.dict => e.dict[k].type \in types

\* The other fields of a postgresql or proxmox entry pass their own checks.
OthersValid(e) ==
    /\ PortValid(e)
    /\ FieldIs(e, "user", {"str"}) /\ FieldIs(e, "database", {"str"})
    /\ FieldIs(e, "password", {"str", "NoneType"})
    /\ FieldIs(e, "token_id", {"str", "NoneType"})
    /\ FieldIs(e, "token_secret", {"str", "NoneType"})

\* The raw config has a map for collector k that sets the field f.
Sets(k, f) ==
    /\ k \in DOMAIN raw.dict
    /\ raw.dict[k].type = "dict"
    /\ f \in DOMAIN raw.dict[k].dict

\* C21: for the nginx status_page_url, the caddy admin_api_url and the
\* postgresql and proxmox host: a value that names a loopback host is kept
\* unchanged and the collector stays enabled (its other fields being valid);
\* for every other value the collector's entry is None. Neither case raises.
C21_LoopbackKeptElseDisabled ==
    Validated =>
        /\ \A k \in {"nginx", "caddy"} :
              LET f == IF k = "nginx" THEN "status_page_url" ELSE "admin_api_url"
              IN  Sets(k, f) =>
                    LET v == raw.dict[k].dict[f]
                    IN  /\ DOMAIN raw.dict = {k} => validated.ok
                        /\ validated.ok =>
                              validated.val.dict[k] =
                                 IF UrlNamesLoopback(v) THEN PyDict([j \in {f} |-> v])
                                 ELSE PyNone
        /\ \A k \in {"postgresql", "proxmox"} :
              Sets(k, "host") =>
                    LET v == raw.dict[k].dict.host
                    IN  IF HostNamesLoopback(v)
                        THEN OthersValid(raw.dict[k]) =>
                               /\ DOMAIN raw.dict = {k} => validated.ok
                               /\ validated.ok =>
                                     /\ validated.val.dict[k].type = "dict"
                                     /\ validated.val.dict[k].dict.host = v
                        ELSE /\ DOMAIN raw.dict = {k} => validated.ok
                             /\ validated.ok => validated.val.dict[k] = PyNone

\* A URL whose host is [::1] behind the user name "localhost" was validated
\* and kept as it was sent.
C21_Witness ==
    /\ Validated /\ validated.ok
    /\ Sets("nginx", "status_page_url")
    /\ raw.dict.nginx.dict.status_page_url =
          PyText(<<"HTTP", ":", "/", "/", "localhost", "@", "[", ":", ":", "1", "]",
                   ":", "8080", "/", "x">>)
    /\ validated.val.dict.nginx =
          PyDict([status_page_url |-> raw.dict.nginx.dict.status_page_url])

\* out is the string s without its carriage returns and line feeds: the kept
\* characters are all there, each at its rank among the kept ones.
IsWithoutCrLf(out, s) ==
    LET keep == {i \in 1..Len(s) : s[i] \notin {"\r", "\n"}}
        rank(i) == Cardinality({j \in keep : j <= i})
    IN  /\ Len(out) = Cardinality(keep)
        /\ \A i \in keep : out[rank(i)] = s[i]

\* C22: a string password of a redis or postgresql entry comes out without
\* carriage return and line feed, and is otherwise the input: those
\* characters removed, all others kept in order. The entry stays enabled.
C22_PasswordWithoutCrLf ==
    Validated =>
        \A k \in {"redis", "postgresql"} :
            (Sets(k, "password") /\ raw.dict[k].dict.password.type = "str"
                /\ OthersValid(raw.dict[k]) /\ DOMAIN raw.dict = {k}) =>
                LET sent == Pieces(raw.dict[k].dict.password)
                IN  /\ validated.ok
                    /\ validated.val.dict[k].type = "dict"
                    /\ validated.val.dict[k].dict.password.type = "str"
                    /\ LET out == Pieces(validated.val.dict[k].dict.password)
                        IN  /\ \A i \in 1..Len(out) : out[i] \notin {"\r", "\n"}
                            /\ IsWithoutCrLf(out, sent)

\* A redis password with a carriage return and a line feed between two
\* characters has been sanitized to the two characters.
C22_Witness ==
    /\ Validated /\ validated.ok
    /\ Sets("redis", "password")
    /\ raw.dict.redis.dict.password = PyText(<<"a", "\r", "\n">>)
    /\ validated.val.dict.redis =
          PyDict([port |-> PyInt(6379), password |-> PyText(<<"a">>)])

\* The top-level keys of every validated config.
RecognizedKeys ==
    {"enabled", "interval", "request_options",
     "cpu", "memory", "network", "partitions", "io", "smart_storage_health",
     "raid_storage_health", "processes", "temperatures", "fans", "fail2ban",
     "ipv4", "ipv6",
     "redis", "nginx", "caddy", "postgresql", "proxmox", "docker", "qemu",
     "ports", "ping", "packages"}

\* The parameter names each sanitized collector map can have.
RecognizedParams ==
    [redis |-> {"port", "password"},
     nginx |-> {"status_page_url"},
     caddy |-> {"admin_api_url"},
     postgresql |-> {"host", "port", "user", "database", "password"},
     proxmox |-> {"host", "port", "token_id", "token_secret", "verify_ssl"},
     docker |-> {"socket_url"},
     qemu |-> {"uri"},
     ports |-> {"monitored_ports"}]

C25_FlagsCarriedOver ==
    (Validated /\ validated.ok) =>
        \A f \in {"cpu", "memory", "network", "partitions", "io", "swap",
                   "smart_storage_health", "raid_storage_health", "processes",
                   "temperatures", "fans", "fail2ban", "ipv4", "ipv6",
                   "nvidia_gpu"} :
            /\ f \in DOMAIN validated.val.dict
            /\ IF f \in DOMAIN raw.dict
               THEN raw.dict[f].type = "bool" => validated.val.dict[f] = raw.dict[f]
               ELSE validated.val.dict[f] = PyNone

\* The events of the current attempt that an operation op has logged.
Logged(op) == {i \in DOMAIN conn_log : conn_log[i].op = op}

\* C26: a request goes over a plaintext connection only when the host of
\* API_URL is the literal "localhost"; for any other host the request, and
\* the bearer token with it, goes over TLS after a DNS resolution and a TLS
\* handshake of the same attempt.
C26_PlaintextOnlyForLocalhost ==
    \A i \in Logged("request") \cup Logged("sent") :
        IF HostOf(api_url) = "localhost"
        THEN conn_log[i].via = "plain"
        ELSE /\ conn_log[i].via = "tls"
             /\ \E j \in Logged("resolve") : j < i
             /\ \E j \in Logged("tls") : j < i

\* A failed attempt's step: try_count and the count of failures go up by one
\* and _post goes to its backoff wait (or out, by the KeyError of a config
\* without retry_interval).
FailedStep(t) ==
    /\ try_count'[t] = try_count[t] + 1
    /\ failed'[t] = failed[t] + 1
    /\ pc'[t] = IF HasRequestOption(config, "retry_interval")
                THEN "post_backoff" ELSE RaisePc(t)

\* C27: for a host that is not local, every operation on the AAAA record
\* comes after the resolution of the A record and after every operation on
\* it, and only when the A attempt has not produced a connection; get_conn
\* reports no connection only after both were tried; and the caller's step
\* on no connection is the step of any failed attempt: one more try_count,
\* then the same backoff wait.
C27_V4ThenV6ThenFailedAttempt ==
    /\ [](\A i \in DOMAIN conn_log :
            conn_log[i].via = "AAAA" =>
                /\ \E j \in Logged("resolve") : j < i /\ conn_log[j].via = "A"
                /\ \A j \in DOMAIN conn_log :
                      conn_log[j].via = "A" => j < i
                /\ \A j \in 1..i : conn_log[j].via # "tls")
    /\ [](pc["sync"] = "conn_none" =>
            /\ conn = [kind |-> "None"]
            /\ \E j \in Logged("resolve") : conn_log[j].via = "A"
            /\ \E j \in Logged("resolve") : conn_log[j].via = "AAAA")
    /\ [][/\ pc["sync"] = "conn_none" => FailedStep("sync")
          /\ pc["sync"] = "conn_request" /\ failed'["sync"] # failed["sync"]
                => FailedStep("sync")]_vars

\* No connection after a failed connect on IPv4 and a failed resolution on
\* IPv6, counted as the first failed attempt and followed by the backoff.
C27_Witness ==
    /\ pc["sync"] = "post_backoff"
    /\ conn = [kind |-> "None"]
    /\ conn_log = <<Event("resolve", "A"), Event("connect", "A"),
                    Event("resolve", "AAAA")>>
    /\ try_count["sync"] = 1
    /\ failed["sync"] = 1

\* The step takes the Agent's thread on from position at.
Leaves(at) == pc["agent"] = at /\ pc'["agent"] # at

\* C28: with the TOKEN file missing the process exits with code 2 at the
\* load of the file, before the queue and the Synchronizer are created: the
\* Synchronizer thread is never started, no connection is asked for and
\* nothing is put in a queue.
C28_MissingTokenExitsBeforeStart ==
    /\ [](token = "file_missing" =>
            /\ pc["agent"] \in {"i_probe", "i_token", "exited"}
            /\ pc["agent"] = "exited" <=> exit_code = 2
            /\ created = {}
            /\ pc["sync"] = "unborn"
            /\ \A t \in Threads : get_conn_calls[t] = 0 /\ received = 0
            /\ queue = << >>)
    /\ [][token = "file_missing" /\ Leaves("i_token") =>
            exit_code' = 2 /\ pc'["agent"] = "exited"]_vars

\* The process has ended with code 2 for want of the TOKEN file.
C28_Witness ==
    /\ token = "file_missing"
    /\ pc["agent"] = "exited"
    /\ exit_code = 2
    /\ created = {}

\* The Agent's thread is out of the loop of run: in _cleanup or gone.
OutOfLoop == pc["agent"] \in {"c_clear", "c_stop", "c_put", "c_join", "exited"}

\* The positions of the handling of a re-probe signal in a tick, with the
\* position each one goes on to.
Handling ==
    [p_clear |-> "p_force", p_force |-> "p_probe_forced", p_probe_forced |-> "gc_check"]

Probing == {"p_probe_init", "p_probe_periodic", "p_probe_forced"}

\* C30: refresh_if_needed re-probes and returns True exactly when
\* REPROBE_INTERVAL seconds or more have passed since the last probe, be it
\* the initial, a periodic or a forced one, and else returns False with the
\* capabilities and the last-probed time as they were; force_refresh
\* re-probes whatever time has passed; and the last-probed time is the time of
\* the last probe of any kind, for nothing else sets it.
C30_RefreshIfNeededExactlyWhenDue ==
    [][/\ Leaves("p_if_needed") =>
             IF now - _last_probe_time >= REPROBE_INTERVAL
             THEN pc'["agent"] = "p_probe_periodic"
             ELSE /\ pc'["agent"] \notin Probing
                  /\ refreshed' = "False"
                  /\ UNCHANGED <<capabilities, _last_probe_time>>
       /\ Leaves("p_probe_periodic") =>
             refreshed' = "True" /\ _last_probe_time' = now
       /\ Leaves("p_force") => pc'["agent"] = "p_probe_forced"
       /\ (\E at \in Probing : Leaves(at)) => _last_probe_time' = now
       /\ ~(\E at \in Probing : Leaves(at)) =>
             UNCHANGED <<capabilities, _last_probe_time>>
       /\ refreshed' = "True" /\ refreshed # "True" =>
             Leaves("p_probe_periodic")]_vars

\* refresh_if_needed has found exactly the interval gone since a forced probe
\* and is about to re-probe.
C30_Witness ==
    /\ pc["agent"] = "p_probe_periodic"
    /\ refreshed = "capabilities"
    /\ _last_probe_time > 0
    /\ now - _last_probe_time = REPROBE_INTERVAL

\* C34: under put, get and clear in any order the queue holds at most
\* maxsize + 1 entries; a put evicts only when the size is already above
\* maxsize, so a put at size maxsize appends and evicts nothing, and a put at
\* size maxsize + 1 drops exactly the oldest entry and appends.
C34_EvictsOnlyAboveCapacity ==
    /\ [](Len(queue) <= maxsize + 1)
    /\ [][Len(put_log') = Len(put_log) + 1 =>
            LET new == put_log'[Len(put_log')]
            IN  /\ Len(queue) <= maxsize => queue' = Append(queue, new)
                /\ Len(queue) = maxsize + 1 => queue' = Append(Tail(queue), new)]_vars

\* A queue of capacity 2 after four puts: the third put found the queue at
\* capacity and only appended, the fourth found three entries and dropped
\* the oldest.
C34_Witness ==
    /\ maxsize = 2
    /\ get_log = << >>
    /\ clear_mark = 0
    /\ put_log = <<Data(1), Data(2), Data(3), Data(1)>>
    /\ queue = <<Data(2), Data(3), Data(1)>>

C36_SentinelEndsMainLoop ==
    [][/\ (/\ pc["sync"] = "run_get"
           /\ Len(queue) > 0
           /\ queue' = Tail(queue)
           /\ Head(queue) = Sentinel) =>
             /\ stop_event
             /\ pc'["sync"] = "run_loop"
             /\ get_conn_calls' = get_conn_calls
             /\ received' = received
             /\ unfinished_tasks' = unfinished_tasks
       /\ stop_event => stop_event'
       /\ (pc["sync"] = "run_loop" /\ stop_event /\ pc'["sync"] # "run_loop") =>
             pc'["sync"] = "stopped"
       /\ pc["sync"] = "stopped" => pc'["sync"] = "stopped"]_vars

\* The Agent has put the sentinel, the Synchronizer has taken it off the
\* queue and its main loop has ended.
C36_Witness ==
    /\ pc["agent"] \in {"c_join", "exited"}
    /\ queue = << >>
    /\ pc["sync"] = "stopped"
    /\ stop_event

\* C38: a docker entry whose socket_url is neither null nor a string that
\* starts with unix://, and a qemu entry whose uri is present and is not one
\* of qemu:///system and qemu:///session, come out of validation disabled
\* (null); an entry with a permitted value comes out with that value.
C38_UnsafeSocketsDisabled ==
    Validated =>
        /\ Sets("docker", "socket_url") =>
              LET socket_url == raw.dict.docker.dict.socket_url
              IN  /\ validated.ok
                  /\ validated.val.dict.docker =
                        IF \/ socket_url = PyNone
                           \/ /\ socket_url.type = "str"
                              /\ Head(Pieces(socket_url)) = "unix://"
                        THEN PyDict([socket_url |-> socket_url])
                        ELSE PyNone
        /\ (Sets("qemu", "uri") /\ raw.dict.qemu.dict.uri # PyNone) =>
              LET uri == raw.dict.qemu.dict.uri
              IN  /\ validated.ok
                  /\ validated.val.dict.qemu =
                        IF uri \in {PyStr("qemu:///system"), PyStr("qemu:///session")}
                        THEN PyDict([uri |-> uri])
                        ELSE PyNone

\* C40: under every interleaving of the Agent's put and clear with the
\* Synchronizer's get and task_done the unfinished-task counter is never
\* negative and task_done never fails: the Synchronizer always leaves
\* task_done towards its loop test, also when clear() ran while it was
\* still sending.
C40_TaskDoneNeverFails ==
    /\ [](unfinished_tasks >= 0)
    /\ [][(pc["sync"] = "task_done" /\ pc'["sync"] # "task_done")
             => (pc'["sync"] = "run_loop" /\ unfinished_tasks' = unfinished_tasks - 1)]_vars

\* C39: a re-probe updates the existing capability map in place and never
\* replaces it: the dict a caller got from force_refresh is the dict the
\* probe's attribute names after every later re-probe, and it shows the
\* values of the latest probe.
C39_CapabilitiesUpdatedInPlace ==
    held # NoRef => (held = capabilities_ref /\ heap[held] = capabilities)

\* The error messages thread t has logged after the first n calls of log.
RECURSIVE ErrorsOf(_, _, _)
ErrorsOf(lines, t, n) ==
    IF Len(lines) <= n THEN << >>
    ELSE LET last == lines[Len(lines)]
             before == ErrorsOf(SubSeq(lines, 1, Len(lines) - 1), t, n)
         IN  IF last.thread = t /\ last.level = "error"
             THEN Append(before, last.message) ELSE before

\* C31: the open capture window of a thread holds exactly the error lines
\* that thread has logged since it opened the window, so it never receives
\* a line another thread logged; and a call of log by a thread that has no
\* open window changes no thread's window and nothing a window returned.
C31_CaptureIsPerThread ==
    /\ [](\A t \in Threads :
            log_buffer[t] # NoLogBuffer =>
                log_buffer[t].lines = ErrorsOf(log_lines, t, window_start[t]))
    /\ [][\A t \in Threads :
            (/\ Len(log_lines') = Len(log_lines) + 1
             /\ log_lines'[Len(log_lines')].thread = t) =>
                /\ \A u \in Threads \ {t} : log_buffer'[u] = log_buffer[u]
                /\ log_buffer[t] = NoLogBuffer => log_buffer' = log_buffer
                /\ captured' = captured]_vars

\* The Agent opened a window, the Synchronizer logged an error with no
\* window of its own, the Agent logged an error and closed its window with
\* its own line only.
C31_Witness ==
    /\ log_lines = <<[thread |-> "sync", message |-> "net", level |-> "error"],
                     [thread |-> "agent", message |-> "disk", level |-> "error"]>>
    /\ log_buffer = [t \in Threads |-> NoLogBuffer]
    /\ window_start["agent"] = 0
    /\ captured["agent"] = <<"disk">>
    /\ captured["sync"] = << >>

\* C32: packages_sync calls send_packages exactly when the config's packages
\* entry is a map with a truthy scan flag, the list of installed packages is
\* not empty, its hash differs from the entry's last_package_hash and
\* dry-run is off, and then once, with the list and its hash; in every other
\* case it sends nothing.
C32_SendsExactlyWhenChanged ==
    pkg_call # NoCall =>
        LET entry == pkg_call.packages_config
            wanted ==
                /\ entry.type = "dict"
                /\ "scan" \in DOMAIN entry.dict
                /\ PyTruthy(entry.dict.scan)
                /\ pkg_call.packages # << >>
                /\ \/ "last_package_hash" \notin DOMAIN entry.dict
                   \/ entry.dict.last_package_hash.type # "str"
                   \/ "sha256" \notin DOMAIN entry.dict.last_package_hash
                   \/ entry.dict.last_package_hash.sha256 # HashContent(pkg_call.packages)
                /\ ~pkg_call.dry_run
        IN  IF wanted
            THEN /\ Len(pkg_sent) = 1
                 /\ pkg_sent[1].packages = pkg_call.packages
                 /\ pkg_sent[1].packages_hash.sha256 = HashContent(pkg_call.packages)
            ELSE pkg_sent = << >>

\* A call with scan on, dry-run off and the hash of an older version of the
\* one package on the server has sent the list.
C32_Witness ==
    /\ pkg_call # NoCall
    /\ ~pkg_call.dry_run
    /\ pkg_call.packages_config =
          PyDict([scan |-> PyBool(TRUE),
                  last_package_hash |-> get_packages_hash(<<Package("bash", "5.1")>>)])
    /\ pkg_call.packages = <<Package("bash", "5.2")>>
    /\ Len(pkg_sent) = 1
    /\ pkg_log = "sent successfully"

\* C33: after a get_ip that fetched an address for one family, a get_ip for
\* the same family less than 60 seconds later returns that address without
\* a new HTTP connection, whatever was asked for the other family in
\* between; 60 seconds or more after the fetch a new request is made.
C33_CachedWithinTtl ==
    \A i, j \in DOMAIN ip_calls :
        (/\ i < j
         /\ ip_calls[i].ipv6 = ip_calls[j].ipv6
         /\ ip_calls[i].requested
         /\ ip_calls[i].result # "None") =>
            IF ip_calls[j].at - ip_calls[i].at < IP_CACHE_TTL
            THEN ~ip_calls[j].requested /\ ip_calls[j].result = ip_calls[i].result
            ELSE (\A k \in i + 1 .. j - 1 : ip_calls[k].ipv6 # ip_calls[i].ipv6)
                     => ip_calls[j].requested

\* The calls the registry asks for from position n on under config c: one
\* per collector whose config key has a true value, in registry order, with
\* the value as keyword arguments when the collector takes parameters and
\* the value is a map, and with no arguments otherwise.
RECURSIVE CallsDue(_, _)
CallsDue(c, n) ==
    IF n > Len(COLLECTORS) THEN << >>
    ELSE LET entry == COLLECTORS[n]
             has == entry.config_key \in DOMAIN c
         IN  IF has /\ PyTruthy(c[entry.config_key])
             THEN <<[fn |-> entry.fn,
                     kw |-> IF entry.pass_kwargs /\ c[entry.config_key].type = "dict"
                            THEN c[entry.config_key].dict ELSE EmptyDict]>>
                      \o CallsDue(c, n + 1)
             ELSE CallsDue(c, n + 1)

\* C37: when collect_metrics has ended it has invoked exactly the collectors
\* of the registry whose config key has a true value, one after the other
\* in registry order, each with the config value as keyword arguments when
\* the entry takes parameters and the value is a map and with no arguments
\* otherwise.
C37_DispatchByConfig ==
    cm_pos \in {CollectReturned, CollectRaised} =>
        cm_calls = CallsDue(cm_args.config.dict, 1)

====
